---- MODULE Spec2Model ----
(***************************************************************************)
(* A model of adafruit_templateengine.py.                                  *)
(*                                                                         *)
(* Three parts of the engine are modelled, each with a specification of   *)
(* its own over the same variables:                                        *)
(*   SpecRender   Template.render_iter / render, _yield_as_sized_chunks,   *)
(*                render_string_iter, render_template_iter and _CACHE;     *)
(*   SpecCompile  the token loop of _create_template_rendering_function,   *)
(*                the exec of the generated function and its rendering;    *)
(*   SpecResolve  _resolve_includes_blocks_and_extends and                 *)
(*                _replace_blocks_with_replacements.                       *)
(* Further specifications give the loops (SpecLoop), autoescape            *)
(* (SpecEscape), the escapers (SpecSafe) and the cached entry points       *)
(* (SpecCache) inputs of their own.  In SpecRender the template behind a   *)
(* key of _CACHE is its class name; in SpecCache it is the compiled        *)
(* template.                                                               *)
(*                                                                         *)
(* Text is modelled after lexing: a template is a sequence whose elements  *)
(* are single characters of literal text or whole tags, each tag being one *)
(* string such as "{% endif %}".  A regular-expression search of the code  *)
(* is the search for the first element of the matching kind.  A hash       *)
(* comment may also come in two pieces, "{" and the rest, which spell a    *)
(* comment once they stand next to each other.                             *)
(***************************************************************************)
EXTENDS Integers, Sequences, FiniteSets, TLC

VARIABLES
    \* --- rendering (SpecRender) ---
    api,          \* the entry point called: "none" before any call
    chunk_size,   \* its chunk_size argument
    fn,           \* what the template function returns for the call's context
    sizes,        \* the chunk sizes of the generator stack returned
    gen,          \* the generator stack's state
    out,          \* the fragments the consumer has received
    state,        \* "idle", "open", "exhausted" or "TypeError"; in SpecCache
                  \* "hit", "miss" or "uncached"
    CACHE,        \* _CACHE: key -> the template stored under it
    \* --- compiling (SpecCompile, SpecOutput) ---
    phase,        \* "off", "include", "included", "resolve", "replace",
                  \* "resolved", "scan", "compiled", "failed", "reported",
                  \* "exhausted", "rendering" or "rendered"
    template,     \* the local 'template': the text being worked on
    language,     \* the language argument
    trim_blocks,  \* the trim_blocks argument of the compilation
    lstrip_blocks,    \* its lstrip_blocks argument
    function_string,
    indentation_level,
    nested_if_statements,
    nested_for_loops,
    nested_while_loops,
    nested_autoescape_modes,
    last_token_was_block,
    offset,
    raised,       \* the exception that ended the compilation
    context,      \* the context of the render call
    rendered,     \* what Template.render returned or raised
    \* --- includes, blocks and extends (SpecResolve) ---
    files,              \* the file system: path -> text of the file
    template_string,    \* the argument of Template(...)
    extended_templates,
    block_replacements

renderVars == <<api, chunk_size, fn, sizes, gen, out, state, CACHE>>

compileVars ==
    <<phase, template, language, trim_blocks, lstrip_blocks,
      function_string, indentation_level, nested_if_statements,
      nested_for_loops, nested_while_loops, nested_autoescape_modes,
      last_token_was_block, offset, raised, context, rendered>>

resolveVars ==
    <<files, template_string, extended_templates, block_replacements>>

\* ------------------------------------------------------------------------
\* Bounds of the model
\* ------------------------------------------------------------------------

\* Fragments one call of the template function yields, at most.
MaxItems == 2
\* Characters of one yielded fragment, at most.
MaxItemLen == 3
\* The largest chunk_size passed.
MaxChunk == 2

\* ------------------------------------------------------------------------
\* Generic helpers
\* ------------------------------------------------------------------------

RECURSIVE Concat(_)
\* "".join(fragments)
Concat(frags) ==
    IF frags = <<>> THEN <<>> ELSE Head(frags) \o Concat(Tail(frags))

RECURSIVE SumTo(_, _)
SumTo(lens, n) == IF n = 0 THEN 0 ELSE lens[n] + SumTo(lens, n - 1)

\* The fragments of the given lengths.  A character is named by its place
\* in the whole output, so a dropped, repeated or moved character shows.
FragmentsOf(lens) ==
    [i \in 1..Len(lens) |-> [j \in 1..lens[i] |-> SumTo(lens, i - 1) + j]]

LengthLists ==
    UNION {[1..n -> 0..MaxItemLen] : n \in 0..MaxItems}

\* ------------------------------------------------------------------------
\* Template.render_iter, _yield_as_sized_chunks
\* ------------------------------------------------------------------------

\* chunk_size=None (the default of render_iter and of the *_iter functions)
NoChunk == 0

ChunkSizes == {NoChunk} \cup (1..MaxChunk)

\* What self._template_function(context) returns: a generator of the
\* fragments, or None when the generated function holds no yield.
FunctionResults ==
    {[iterable |-> TRUE, items |-> FragmentsOf(lens)] : lens \in LengthLists}
        \cup {[iterable |-> FALSE, items |-> <<>>]}

\* chunk[:chunk_size]
ChunkHead(chunk, k) ==
    SubSeq(chunk, 1, k)

ChunkRest_dropsRest(chunk, k) ==
    <<>>

\* chunk = chunk[chunk_size:]
ChunkRest(chunk, k) ==
    SubSeq(chunk, k + 1, Len(chunk))

\* A generator stack: layers[i] is the chunk_size of the i-th
\* _yield_as_sized_chunks generator (1 is the outermost, the one the caller
\* holds), bufs[i] its local 'chunk', and pos the number of fragments the
\* template function's generator has yielded.
NewGen(layers) ==
    [pos |-> 0, bufs |-> [i \in 1..Len(layers) |-> <<>>]]

Yielded(st, item) == [st |-> st, kind |-> "item", item |-> item]
Stopped(st) == [st |-> st, kind |-> "stop", item |-> <<>>]
Raised(st) == [st |-> st, kind |-> "TypeError", item |-> <<>>]

RECURSIVE GenNext(_, _, _, _)
\* next() on generator i of the stack.  Past the last chunking generator it
\* is the template function's own generator (iterating None raises
\* TypeError).  The slice chunk = chunk[chunk_size:] that the code runs when
\* the generator is resumed is taken at the yield: nothing reads 'chunk'
\* in between.
GenNext(i, layers, f, st) ==
    IF i > Len(layers)
    THEN IF ~f.iterable THEN Raised(st)
         ELSE IF st.pos < Len(f.items)
              THEN Yielded([st EXCEPT !.pos = @ + 1], f.items[st.pos + 1])
              ELSE Stopped(st)
    ELSE LET r == GenNext(i + 1, layers, f, st) IN
         CASE r.kind = "TypeError" -> r
           [] r.kind = "stop" ->
                \* Yield the last chunk
                IF r.st.bufs[i] # <<>>
                THEN Yielded([r.st EXCEPT !.bufs[i] = <<>>], r.st.bufs[i])
                ELSE r
           [] OTHER ->
                LET chunk == r.st.bufs[i] \o r.item
                    grown == [r.st EXCEPT !.bufs[i] = chunk]
                IN  IF layers[i] = NoChunk
                    THEN Raised(grown)   \* None <= len(chunk)
                    ELSE IF layers[i] <= Len(chunk)
                         THEN Yielded(
                                [r.st EXCEPT
                                   !.bufs[i] = ChunkRest(chunk, layers[i])],
                                ChunkHead(chunk, layers[i]))
                         ELSE GenNext(i, layers, f, grown)

\* The generator stack Template.render_iter(context, chunk_size=...) returns.
RenderIterSizes(k) ==
    IF k # NoChunk THEN <<k>> ELSE <<>>

RECURSIVE Drain(_, _, _, _)
\* Consume a generator stack to its end: [kind, frags].
Drain(layers, f, st, acc) ==
    LET r == GenNext(1, layers, f, st) IN
    CASE r.kind = "TypeError" -> [kind |-> "TypeError", frags |-> acc]
      [] r.kind = "stop" -> [kind |-> "ok", frags |-> acc]
      [] OTHER -> Drain(layers, f, r.st, Append(acc, r.item))

\* Template.render: "".join(self.render_iter(context or {}))
Render(f) ==
    LET d == Drain(RenderIterSizes(NoChunk), f,
                   NewGen(RenderIterSizes(NoChunk)), <<>>)
    IN  IF d.kind = "ok"
        THEN [kind |-> "str", text |-> Concat(d.frags)]
        ELSE [kind |-> "TypeError", text |-> <<>>]

\* ------------------------------------------------------------------------
\* SpecRender: the render entry points and their consumer
\* ------------------------------------------------------------------------

\* hash(template_string), hash(template_path): equal inputs, equal keys.
Inputs == {"index.html", "page.html"}

NoFunction == [iterable |-> FALSE, items |-> <<>>]

\* Template.__init__ passes neither flag to the compilation: both keep
\* their default.
DefaultFlags ==
    /\ trim_blocks = TRUE
    /\ lstrip_blocks = TRUE

\* No call is in progress.
RenderIdle ==
    /\ api = "none"
    /\ chunk_size = NoChunk
    /\ fn = NoFunction
    /\ sizes = <<>>
    /\ gen = NewGen(<<>>)
    /\ out = <<>>
    /\ state = "idle"
    /\ CACHE = <<>>

\* No compilation is in progress.
CompileIdle ==
    /\ phase = "off"
    /\ template = <<>>
    /\ language = "html"
    /\ DefaultFlags
    /\ function_string = <<>>
    /\ indentation_level = 1
    /\ nested_if_statements = <<>>
    /\ nested_for_loops = <<>>
    /\ nested_while_loops = <<>>
    /\ nested_autoescape_modes = <<>>
    /\ last_token_was_block = FALSE
    /\ offset = 0
    /\ raised = [type |-> "none",
                 token |-> [start_position |-> 0, end_position |-> 0,
                            content |-> ""],
                 reason |-> ""]
    /\ context = <<>>
    /\ rendered = [kind |-> "none", text |-> <<>>]

\* No template is being resolved.
ResolveIdle ==
    /\ files = <<>>
    /\ template_string = <<>>
    /\ extended_templates = {}
    /\ block_replacements = <<>>

InitRender ==
    /\ RenderIdle
    /\ CompileIdle
    /\ ResolveIdle

\* The caller receives the generator stack 'layers' over the result f.
Open(name, k, f, layers) ==
    /\ api' = name
    /\ chunk_size' = k
    /\ fn' = f
    /\ sizes' = layers
    /\ gen' = NewGen(layers)
    /\ out' = <<>>
    /\ state' = "open"

\* The call itself raises TypeError: no generator is returned.
CallRaises(name, k, f) ==
    /\ api' = name
    /\ chunk_size' = k
    /\ fn' = f
    /\ sizes' = <<>>
    /\ gen' = NewGen(<<>>)
    /\ out' = <<>>
    /\ state' = "TypeError"

\* template.render_iter(context, chunk_size=k)
RenderIter ==
    /\ state = "idle"
    /\ \E f \in FunctionResults, k \in ChunkSizes :
          Open("render_iter", k, f, RenderIterSizes(k))
    /\ UNCHANGED CACHE
    /\ UNCHANGED <<compileVars, resolveVars>>

\* The generator stack of render_string_iter on a cache miss:
\* _yield_as_sized_chunks(template.render_iter(context or {}), chunk_size=k)
StringIterSizes(k) ==
    <<k>> \o RenderIterSizes(NoChunk)

\* The generator stack of render_template_iter on a cache miss:
\* _yield_as_sized_chunks(template.render_iter(context or {}, chunk_size=k), k)
TemplateIterSizes(k) ==
    <<k>> \o RenderIterSizes(k)

\* render_string_iter(template_string, context, chunk_size=k, cache=c).
\* On a cache hit it calls render_iter(context or {}, chunk_size) with
\* chunk_size positional, which render_iter (keyword-only) refuses.
RenderStringIter ==
    /\ state = "idle"
    /\ \E key \in Inputs, f \in FunctionResults, k \in ChunkSizes,
          c \in BOOLEAN :
          IF c /\ key \in DOMAIN CACHE
          THEN /\ CallRaises("render_string_iter", k, f)
               /\ UNCHANGED CACHE
          ELSE /\ Open("render_string_iter", k, f, StringIterSizes(k))
               /\ CACHE' = IF c THEN (key :> "Template") @@ CACHE ELSE CACHE
    /\ UNCHANGED <<compileVars, resolveVars>>

\* render_template_iter(template_path, context, chunk_size=k, cache=c)
RenderTemplateIter ==
    /\ state = "idle"
    /\ \E key \in Inputs, f \in FunctionResults, k \in ChunkSizes,
          c \in BOOLEAN :
          IF c /\ key \in DOMAIN CACHE
          THEN /\ CallRaises("render_template_iter", k, f)
               /\ UNCHANGED CACHE
          ELSE /\ Open("render_template_iter", k, f, TemplateIterSizes(k))
               /\ CACHE' = IF c THEN (key :> "FileTemplate") @@ CACHE
                                 ELSE CACHE
    /\ UNCHANGED <<compileVars, resolveVars>>

\* The consumer asks the returned generator for its next fragment.
NextFragment ==
    /\ state = "open"
    /\ LET r == GenNext(1, sizes, fn, gen) IN
          /\ gen' = r.st
          /\ out' = IF r.kind = "item" THEN Append(out, r.item) ELSE out
          /\ state' = CASE r.kind = "item" -> "open"
                        [] r.kind = "stop" -> "exhausted"
                        [] OTHER -> "TypeError"
    /\ UNCHANGED <<api, chunk_size, fn, sizes, CACHE>>
    /\ UNCHANGED <<compileVars, resolveVars>>

\* The consumer is done with the generator; _CACHE lives on.
Release ==
    /\ state \in {"exhausted", "TypeError"}
    /\ api' = "none"
    /\ chunk_size' = NoChunk
    /\ fn' = NoFunction
    /\ sizes' = <<>>
    /\ gen' = NewGen(<<>>)
    /\ out' = <<>>
    /\ state' = "idle"
    /\ UNCHANGED CACHE
    /\ UNCHANGED <<compileVars, resolveVars>>

NextRender ==
    \/ RenderIter
    \/ RenderStringIter
    \/ RenderTemplateIter
    \/ NextFragment
    \/ Release

vars == <<renderVars, compileVars, resolveVars>>

SpecRender == InitRender /\ [][NextRender]_vars

\* ------------------------------------------------------------------------
\* Claims about rendering
\* ------------------------------------------------------------------------

\* C1: for every result of the template function and every chunk_size (None
\* or K >= 1), the fragments render_iter(context, chunk_size=K) yields,
\* concatenated, are render(context); a render_iter whose consumption raises
\* TypeError is one whose render raises TypeError too.
C1_ChunksConcatToRender ==
    api = "render_iter" =>
        /\ state = "exhausted" =>
              Render(fn) = [kind |-> "str", text |-> Concat(out)]
        /\ state = "TypeError" => Render(fn).kind = "TypeError"

\* C1 witness: a chunked render_iter was consumed to its end, and it had to
\* cut a fragment and to join fragments.
C1_Witness ==
    /\ api = "render_iter"
    /\ state = "exhausted"
    /\ chunk_size = 2
    /\ Len(fn.items) = 2
    /\ Len(fn.items[1]) = 3
    /\ Len(out) = 2

\* C2: with chunk_size = K >= 1 every fragment render_iter yields has
\* exactly K characters, except the final one, which is non-empty and has at
\* most K characters.
C2_FragmentsAreSized ==
    (api = "render_iter" /\ chunk_size # NoChunk /\ state = "exhausted") =>
        /\ \A i \in 1..Len(out) - 1 : Len(out[i]) = chunk_size
        /\ out # <<>> =>
              /\ Len(out[Len(out)]) >= 1
              /\ Len(out[Len(out)]) <= chunk_size

\* C3: render_string_iter and render_template_iter called without a
\* chunk_size yield exactly the fragments of the template function, and
\* neither the call nor the consumption raises, cached or not.
C3_IterWithoutChunkSize ==
    (api \in {"render_string_iter", "render_template_iter"}
        /\ chunk_size = NoChunk /\ fn.iterable) =>
        /\ state # "TypeError"
        /\ state = "exhausted" => out = fn.items

\* ------------------------------------------------------------------------
\* Lexed template text
\* ------------------------------------------------------------------------

\* Characters of literal text.
Chars == {"a", " ", "\n"}

\* One row per tag the model knows: the tag as written, its opening
\* delimiter, the first word of its body and the rest of the body.  For a
\* for tag, iter is the text after " in "; for an extends or include tag,
\* arg is the path between the quotes; for an expression tag the body is
\* one word.
Row(c, o, w, a, it) ==
    [content |-> c, open |-> o, word |-> w, arg |-> a, iter |-> it]

TagTable ==
    { Row("{{ name }}", "{{", "name", "", ""),
      Row("{{ context['name'] }}", "{{", "context['name']", "", ""),
      Row("{{ block.super }}", "{{", "block.super", "", ""),
      Row("{{ x }}", "{{", "x", "", ""),
      Row("{% if context['c'] %}", "{%", "if", "context['c']", ""),
      Row("{% elif context['d'] %}", "{%", "elif", "context['d']", ""),
      Row("{% else %}", "{%", "else", "", ""),
      Row("{% endif %}", "{%", "endif", "", ""),
      Row("{% for x in context['xs'] %}", "{%", "for", "x in context['xs']",
          "context['xs']"),
      Row("{% empty %}", "{%", "empty", "", ""),
      Row("{% endfor %}", "{%", "endfor", "", ""),
      Row("{% while context['c'] %}", "{%", "while", "context['c']", ""),
      Row("{% endwhile %}", "{%", "endwhile", "", ""),
      Row("{% exec context['n'] = 1 %}", "{%", "exec", "context['n'] = 1", ""),
      Row("{% autoescape on %}", "{%", "autoescape", "on", ""),
      Row("{% autoescape off %}", "{%", "autoescape", "off", ""),
      Row("{% autoescape maybe %}", "{%", "autoescape", "maybe", ""),
      Row("{% endautoescape %}", "{%", "endautoescape", "", ""),
      Row("{% block a %}", "{%", "block", "a", ""),
      Row("{% block b %}", "{%", "block", "b", ""),
      Row("{% endblock a %}", "{%", "endblock", "a", ""),
      Row("{% endblock b %}", "{%", "endblock", "b", ""),
      Row("{% endblock %}", "{%", "endblock", "", ""),
      Row("{% extends 'base.html' %}", "{%", "extends", "base.html", ""),
      Row("{% extends 'page.html' %}", "{%", "extends", "page.html", ""),
      Row("{% extends 'missing.html' %}", "{%", "extends", "missing.html",
          ""),
      Row("{% include 'foot.html' %}", "{%", "include", "foot.html", ""),
      Row("{% include 'side.html' %}", "{%", "include", "side.html", ""),
      Row("{% include 'missing.html' %}", "{%", "include", "missing.html",
          ""),
      Row("{% comment %}", "{%", "comment", "", ""),
      Row("{% endcomment %}", "{%", "endcomment", "", ""),
      Row("{% spam %}", "{%", "spam", "", "") }

Tags == {r.content : r \in TagTable}

RowOf(tag) == CHOOSE r \in TagTable : r.content = tag

\* _TOKEN_PATTERN: {{ .+? }}|{% .+? %}
IsTag(e) == e \in Tags

\* token.content.startswith("{{ ")
IsExpression(tag) == RowOf(tag).open = "{{"

\* token.content.startswith("{% ")
IsStatement(tag) == RowOf(tag).open = "{%"

\* token.content.startswith("{% <word> "): true of "{% <word> %}" too.
StartsWithWord(tag, w) == IsStatement(tag) /\ RowOf(tag).word = w

\* token.content == "{% <word> %}"
IsExactly(tag, w) == StartsWithWord(tag, w) /\ RowOf(tag).arg = ""

\* Token(template, start_position, end_position): positions count the
\* elements of the lexed template from 0, a tag being one element; content
\* is the tag.
Token(start, tag) ==
    [start_position |-> start, end_position |-> start + 1, content |-> tag]

NoToken == [start_position |-> 0, end_position |-> 0, content |-> ""]

\* ------------------------------------------------------------------------
\* Whitespace control
\* ------------------------------------------------------------------------

RECURSIVE RStripSpaces(_)
\* text.rstrip(" ")
RStripSpaces(text) ==
    IF text # <<>> /\ text[Len(text)] = " "
    THEN RStripSpaces(SubSeq(text, 1, Len(text) - 1))
    ELSE text

\* The text ends with a newline and one or more spaces.
EndsWithNewlineSpaces(text) ==
    LET stripped == RStripSpaces(text) IN
    /\ Len(stripped) < Len(text)
    /\ stripped # <<>>
    /\ stripped[Len(stripped)] = "\n"

\* _token_is_on_own_line: _LSTRIP_BLOCK_PATTERN \n( )+$ is found in the
\* text; $ matches at the end and before a newline that ends the text.
TokenIsOnOwnLine(text) ==
    \/ EndsWithNewlineSpaces(text)
    \/ /\ text # <<>>
       /\ text[Len(text)] = "\n"
       /\ EndsWithNewlineSpaces(SubSeq(text, 1, Len(text) - 1))

\* text.startswith("\n")
StartsWithNewline(text) == text # <<>> /\ text[1] = "\n"

\* ------------------------------------------------------------------------
\* _create_template_rendering_function: the token loop
\* ------------------------------------------------------------------------

\* One line of function_string after the def line: indent * level, then the
\* statement.  code "yield" yields the literal 'text'; "yield_safe" yields
\* safe_<language>(expr) and "yield_str" str(expr); "if", "elif", "for" and
\* "while" are the header '<code> <expr>:'; "else" is 'else:'; "if_not" is
\* 'if not <expr>:'; "exec" is the raw statement expr; "pass" is pass.
Line(level, code, text, expr) ==
    [level |-> level, code |-> code, text |-> text, expr |-> expr]

NoError == [type |-> "none", token |-> NoToken, reason |-> ""]

\* raise TemplateSyntaxError(token, reason)
TemplateSyntaxError(token, reason) ==
    [type |-> "TemplateSyntaxError", token |-> token, reason |-> reason]

\* The locals of _create_template_rendering_function before the loop.
CompilerStart ==
    [ function_string |-> <<>>,
      indentation_level |-> 1,
      nested_if_statements |-> <<>>,
      nested_for_loops |-> <<>>,
      nested_while_loops |-> <<>>,
      nested_autoescape_modes |-> <<>>,
      last_token_was_block |-> FALSE,
      offset |-> 0,
      raised |-> NoError ]

Last(stack) == stack[Len(stack)]

\* list.pop()
Pop(stack) == SubSeq(stack, 1, Len(stack) - 1)

\* The text before the token as it is emitted: lstrip_blocks before a
\* statement on a line of its own, then trim_blocks after a statement.
TextBeforeToken(text, tag, after_block) ==
    LET lstripped ==
            IF text # <<>> /\ lstrip_blocks /\ IsStatement(tag)
                 /\ TokenIsOnOwnLine(text)
            THEN RStripSpaces(text) ELSE text
    IN  IF text # <<>> /\ trim_blocks /\ after_block
             /\ StartsWithNewline(lstripped)
        THEN Tail(lstripped) ELSE lstripped

\* 'yield <text>' or, for an empty text, 'pass'
EmitText(c, text) ==
    [c EXCEPT !.function_string =
        Append(@, IF text # <<>>
                  THEN Line(c.indentation_level, "yield", text, "")
                  ELSE Line(c.indentation_level, "pass", <<>>, ""))]

Emit(c, code, expr) ==
    [c EXCEPT !.function_string =
        Append(@, Line(c.indentation_level, code, <<>>, expr))]

Dedent_keepsLevel(c) == c

Indent(c) == [c EXCEPT !.indentation_level = @ + 1]
Dedent(c) == [c EXCEPT !.indentation_level = @ - 1]

Raise(c, token, reason) ==
    [c EXCEPT !.raised = TemplateSyntaxError(token, reason)]

\* Every expression is escaped.
CompileExpression_alwaysEscapes(c, token) ==
    Emit([c EXCEPT !.last_token_was_block = FALSE], "yield_safe",
         RowOf(token.content).word)

\* Token is an expression: escaped unless the innermost autoescape is off.
CompileExpression(c, token) ==
    LET autoescape ==
            IF c.nested_autoescape_modes # <<>>
            THEN RowOf(Last(c.nested_autoescape_modes).content).arg = "on"
            ELSE TRUE
    IN  Emit([c EXCEPT !.last_token_was_block = FALSE],
             IF autoescape THEN "yield_safe" ELSE "yield_str",
             RowOf(token.content).word)

\* Token is a statement: the elif chain of the loop body, in its order.
CompileStatement(c0, token) ==
    LET c == [c0 EXCEPT !.last_token_was_block = TRUE]
        tag == token.content
        row == RowOf(tag)
    IN  CASE StartsWithWord(tag, "if") ->
               [Indent(Emit(c, "if", row.arg)) EXCEPT
                   !.nested_if_statements = Append(@, token)]
          [] StartsWithWord(tag, "elif") ->
               IF c.nested_if_statements = <<>>
               THEN Raise(c, token, "No matching {% if ... %}")
               ELSE Indent(Emit(Dedent(c), "elif", row.arg))
          [] IsExactly(tag, "else") ->
               IF c.nested_if_statements = <<>>
               THEN Raise(c, token, "No matching {% if ... %}")
               ELSE Indent(Emit(Dedent(c), "else", ""))
          [] IsExactly(tag, "endif") ->
               IF c.nested_if_statements = <<>>
               THEN Raise(c, token, "No matching {% if ... %}")
               ELSE [Dedent(c) EXCEPT !.nested_if_statements = Pop(@)]
          [] StartsWithWord(tag, "for") ->
               [Indent(Emit(c, "for", row.arg)) EXCEPT
                   !.nested_for_loops = Append(@, token)]
          [] IsExactly(tag, "empty") ->
               IF c.nested_for_loops = <<>>
               THEN Raise(c, token, "No matching {% for ... %}")
               ELSE Indent(Emit(Dedent(c), "if_not",
                        RowOf(Last(c.nested_for_loops).content).iter))
          [] IsExactly(tag, "endfor") ->
               IF c.nested_for_loops = <<>>
               THEN Raise(c, token, "No matching {% for ... %}")
               ELSE [Dedent(c) EXCEPT !.nested_for_loops = Pop(@)]
          [] StartsWithWord(tag, "while") ->
               [Indent(Emit(c, "while", row.arg)) EXCEPT
                   !.nested_while_loops = Append(@, token)]
          [] IsExactly(tag, "endwhile") ->
               IF c.nested_while_loops = <<>>
               THEN Raise(c, token, "No matching {% while ... %}")
               ELSE [Dedent(c) EXCEPT !.nested_while_loops = Pop(@)]
          [] StartsWithWord(tag, "exec") ->
               Emit(c, "exec", row.arg)
          [] StartsWithWord(tag, "autoescape") ->
               IF row.arg \notin {"on", "off"}
               THEN [c EXCEPT !.raised =
                       [type |-> "ValueError", token |-> NoToken,
                        reason |-> "Unknown autoescape mode"]]
               ELSE [c EXCEPT !.nested_autoescape_modes = Append(@, token)]
          [] IsExactly(tag, "endautoescape") ->
               IF c.nested_autoescape_modes = <<>>
               THEN Raise(c, token, "No matching {% autoescape ... %}")
               ELSE [c EXCEPT !.nested_autoescape_modes = Pop(@)]
          [] StartsWithWord(tag, "endblock") ->
               Raise(c, token, "No matching {% block ... %}")
          [] StartsWithWord(tag, "extends") ->
               Raise(c, token, "Incorrect use of {% extends ... %}")
          [] OTHER ->
               Raise(c, token, "Unknown token")

\* One pass of the loop: the next token is 'tag', 'text' lies between the
\* offset and it.
CompileToken(c, text, tag) ==
    LET token == Token(c.offset + Len(text), tag)
        emitted == EmitText(c, TextBeforeToken(text, tag,
                                               c.last_token_was_block))
        done == IF IsExpression(tag)
                THEN CompileExpression(emitted, token)
                ELSE CompileStatement(emitted, token)
    IN  IF done.raised.type # "none"
        THEN done
        ELSE [done EXCEPT !.offset = token.end_position]

\* ------------------------------------------------------------------------
\* safe_html, safe_xml, safe_markdown
\* ------------------------------------------------------------------------

\* The character U+0060, which a string of this language cannot hold.
Backtick == "U+0060"

RECURSIVE ReplaceChar(_, _, _)
\* value.replace(c, r) for a one-character c
ReplaceChar(value, c, r) ==
    IF value = <<>> THEN <<>>
    ELSE (IF Head(value) = c THEN r ELSE <<Head(value)>>)
             \o ReplaceChar(Tail(value), c, r)

RECURSIVE ReplaceEach(_, _, _)
\* The chain value.replace(..).replace(..), from pair i of the table on.
ReplaceEach(value, pairs, i) ==
    IF i > Len(pairs) THEN value
    ELSE ReplaceEach(ReplaceChar(value, pairs[i][1], pairs[i][2]),
                     pairs, i + 1)

RECURSIVE ReplaceAmpOrSemi(_)
\* re.sub(r"&|;", _replace_amp_or_semi, value): one pass over the value
ReplaceAmpOrSemi(value) ==
    IF value = <<>> THEN <<>>
    ELSE (CASE Head(value) = "&" -> <<"&", "a", "m", "p", ";">>
            [] Head(value) = ";" -> <<"&", "s", "e", "m", "i", ";">>
            [] OTHER -> <<Head(value)>>)
             \o ReplaceAmpOrSemi(Tail(value))

HtmlReplacements ==
    << <<"\"", <<"&", "q", "u", "o", "t", ";">>>>,
       <<"_", <<"&", "l", "o", "w", "b", "a", "r", ";">>>>,
       <<"-", <<"&", "m", "i", "n", "u", "s", ";">>>>,
       <<",", <<"&", "c", "o", "m", "m", "a", ";">>>>,
       <<":", <<"&", "c", "o", "l", "o", "n", ";">>>>,
       <<"!", <<"&", "e", "x", "c", "l", ";">>>>,
       <<"?", <<"&", "q", "u", "e", "s", "t", ";">>>>,
       <<".", <<"&", "p", "e", "r", "i", "o", "d", ";">>>>,
       <<"'", <<"&", "a", "p", "o", "s", ";">>>>,
       <<"(", <<"&", "l", "p", "a", "r", ";">>>>,
       <<")", <<"&", "r", "p", "a", "r", ";">>>>,
       <<"[", <<"&", "l", "s", "q", "b", ";">>>>,
       <<"]", <<"&", "r", "s", "q", "b", ";">>>>,
       <<"{", <<"&", "l", "c", "u", "b", ";">>>>,
       <<"}", <<"&", "r", "c", "u", "b", ";">>>>,
       <<"@", <<"&", "c", "o", "m", "m", "a", "t", ";">>>>,
       <<"*", <<"&", "a", "s", "t", ";">>>>,
       <<"/", <<"&", "s", "o", "l", ";">>>>,
       <<"\\", <<"&", "b", "s", "o", "l", ";">>>>,
       <<"#", <<"&", "n", "u", "m", ";">>>>,
       <<"%", <<"&", "p", "e", "r", "c", "n", "t", ";">>>>,
       <<Backtick, <<"&", "g", "r", "a", "v", "e", ";">>>>,
       <<"^", <<"&", "H", "a", "t", ";">>>>,
       <<"+", <<"&", "p", "l", "u", "s", ";">>>>,
       <<"<", <<"&", "l", "t", ";">>>>,
       <<"=", <<"&", "e", "q", "u", "a", "l", "s", ";">>>>,
       <<">", <<"&", "g", "t", ";">>>>,
       <<"|", <<"&", "v", "e", "r", "t", ";">>>>,
       <<"~", <<"&", "t", "i", "l", "d", "e", ";">>>>,
       <<"$", <<"&", "d", "o", "l", "l", "a", "r", ";">>>> >>

XmlReplacements ==
    << <<"&", <<"&", "a", "m", "p", ";">>>>,
       <<"\"", <<"&", "q", "u", "o", "t", ";">>>>,
       <<"'", <<"&", "a", "p", "o", "s", ";">>>>,
       <<"<", <<"&", "l", "t", ";">>>>,
       <<">", <<"&", "g", "t", ";">>>> >>

MarkdownReplacements ==
    << <<"_", <<"\\", "_">>>>,
       <<"-", <<"\\", "-">>>>,
       <<"!", <<"\\", "!">>>>,
       <<"(", <<"\\", "(">>>>,
       <<")", <<"\\", ")">>>>,
       <<"[", <<"\\", "[">>>>,
       <<"]", <<"\\", "]">>>>,
       <<"*", <<"\\", "*">>>>,
       <<"*", <<"\\", "*">>>>,
       <<"&", <<"\\", "&">>>>,
       <<"#", <<"\\", "#">>>>,
       <<Backtick, <<"\\", Backtick>>>>,
       <<"+", <<"\\", "+">>>>,
       <<"<", <<"\\", "<">>>>,
       <<">", <<"\\", ">">>>>,
       <<"|", <<"\\", "|">>>>,
       <<"~", <<"\\", "~">>>> >>

\* '&' replaced in the whole value, then ';', then the other characters.
safe_html_ampThenSemi(value) ==
    ReplaceEach(value,
                << <<"&", <<"&", "a", "m", "p", ";">>>>,
                   <<";", <<"&", "s", "e", "m", "i", ";">>>> >>
                  \o HtmlReplacements, 1)

safe_html(value) ==
    ReplaceEach(ReplaceAmpOrSemi(value), HtmlReplacements, 1)

safe_xml(value) == ReplaceEach(value, XmlReplacements, 1)

safe_markdown(value) == ReplaceEach(value, MarkdownReplacements, 1)

\* safe_{language.lower()}(value)
Escape(lang, value) ==
    CASE lang = "html" -> safe_html(value)
      [] lang = "xml" -> safe_xml(value)
      [] lang = "markdown" -> safe_markdown(value)

\* ------------------------------------------------------------------------
\* _create_template_rendering_function: after the loop
\* ------------------------------------------------------------------------

HasUnclosed_never(stack) == FALSE

\* len(nested_..._statements) > 0
HasUnclosed(stack) == Len(stack) > 0

UnclosedToken_first(stack) == Head(stack)

\* last_if_statement = nested_if_statements[-1], and so for the loops
UnclosedToken(stack) == Last(stack)

Openers == {"if", "elif", "else", "for", "while", "if_not"}

\* The line that the statement of line i follows at its own level or a
\* shallower one; 0 is the def line.
Governing(lines, i) ==
    LET before == {j \in 1..(i - 1) : lines[j].level <= lines[i].level}
    IN  IF before = {} THEN 0
        ELSE CHOOSE j \in before : \A k \in before : k <= j

\* What exec(function_string) raises, "none" when the function is defined:
\* a def or a header needs an indented block after it, no other line may be
\* followed by a deeper one, and elif and else continue a statement of
\* their own level that takes them.
PyError(lines) ==
    LET levelBefore(i) == IF i = 1 THEN 0 ELSE lines[i - 1].level
        opensBefore(i) == i = 1 \/ lines[i - 1].code \in Openers
        badIndent ==
            \/ lines = <<>>
            \/ lines[Len(lines)].code \in Openers
            \/ \E i \in 1..Len(lines) :
                  IF opensBefore(i)
                  THEN lines[i].level # levelBefore(i) + 1
                  ELSE lines[i].level > levelBefore(i)
        takes(i, codes) ==
            LET j == Governing(lines, i) IN
            /\ j # 0
            /\ lines[j].level = lines[i].level
            /\ lines[j].code \in codes
        badContinuation ==
            \E i \in 1..Len(lines) :
               \/ lines[i].code = "elif" /\ ~takes(i, {"if", "elif", "if_not"})
               \/ lines[i].code = "else"
                    /\ ~takes(i, {"if", "elif", "if_not", "for", "while"})
    IN  CASE badIndent -> "IndentationError"
          [] badContinuation -> "SyntaxError"
          [] OTHER -> "none"

\* The text after the last token as it is emitted.
TextAfterLastToken(text) ==
    IF trim_blocks /\ StartsWithNewline(text) THEN Tail(text) ELSE text

\* The end of input: the checks for unclosed blocks, the text after the
\* last token, and the exec of the function.
FinishCompile(c, text) ==
    IF HasUnclosed(c.nested_if_statements)
    THEN Raise(c, UnclosedToken(c.nested_if_statements),
               "No matching {% endif %}")
    ELSE IF HasUnclosed(c.nested_for_loops)
    THEN Raise(c, UnclosedToken(c.nested_for_loops),
               "No matching {% endfor %}")
    ELSE IF HasUnclosed(c.nested_while_loops)
    THEN Raise(c, UnclosedToken(c.nested_while_loops),
               "No matching {% endwhile %}")
    ELSE LET emitted ==
                 IF text # <<>>
                 THEN [c EXCEPT !.function_string =
                         Append(@, Line(c.indentation_level, "yield",
                                        TextAfterLastToken(text), ""))]
                 ELSE c
             error == PyError(emitted.function_string)
         IN  IF error = "none" THEN emitted
             ELSE [emitted EXCEPT !.raised =
                     [type |-> error, token |-> NoToken,
                      reason |-> "exec(function_string)"]]

\* ------------------------------------------------------------------------
\* Running the generated function
\* ------------------------------------------------------------------------

\* The expressions of the tags: a subscript of the context parameter, or a
\* bare name.
Subscripts ==
    { [expr |-> "context['name']", key |-> "name"],
      [expr |-> "context['c']", key |-> "c"],
      [expr |-> "context['d']", key |-> "d"],
      [expr |-> "context['xs']", key |-> "xs"] }

IsSubscript(expr) == \E e \in Subscripts : e.expr = expr

KeyOf(expr) == (CHOOSE e \in Subscripts : e.expr = expr).key

Value(v) == [error |-> "none", value |-> v]
Failure(type) == [error |-> type, value |-> <<>>]

\* The value of an expression inside the generated function, whose only
\* local is the parameter context and whose globals are the module's: a
\* key of the context is no name of either.
Eval(expr, ctx) ==
    IF IsSubscript(expr)
    THEN IF KeyOf(expr) \in DOMAIN ctx
         THEN Value(ctx[KeyOf(expr)])
         ELSE Failure("KeyError")
    ELSE Failure("NameError")

\* The function is a generator function when its body holds a yield.
HasYield(lines) ==
    \E i \in 1..Len(lines) :
       lines[i].code \in {"yield", "yield_safe", "yield_str"}

\* The headers of the for tags: '<var> in <iter>'
ForHeaders ==
    { [expr |-> "x in context['xs']", var |-> "x", iter |-> "context['xs']"] }

ForVar(expr) == (CHOOSE h \in ForHeaders : h.expr = expr).var

ForIter(expr) == (CHOOSE h \in ForHeaders : h.expr = expr).iter

\* The values of context['xs']: a list, or an iterator over a list, which
\* hands out each element once.
List(items) == [kind |-> "list", items |-> items]

Iterator(items) == [kind |-> "iter", items |-> items]

\* The local names of the function besides its parameter: its loop
\* variables.
LocalNames(lines) ==
    { ForVar(lines[i].expr) : i \in {j \in 1..Len(lines) :
                                        lines[j].code = "for"} }

\* The state of a run of the generated function: its parameter, the values
\* of the local names bound so far, the fragments yielded and the exception
\* raised.
RunStart(ctx) ==
    [ctx |-> ctx, locals |-> <<>>, frags |-> <<>>, error |-> "none"]

\* The value of an expression in a run: a loop variable is a local name,
\* unbound until its loop has begun a pass.
EvalIn(lines, expr, st) ==
    IF expr \in DOMAIN st.locals THEN Value(st.locals[expr])
    ELSE IF expr \in LocalNames(lines) THEN Failure("UnboundLocalError")
    ELSE Eval(expr, st.ctx)

\* bool(value) of the value of an expression: context['c'] and context['d']
\* hold booleans; a list is true when it has an element, an iterator
\* always; a string when it is not empty.
Truth(expr, value) ==
    CASE ~IsSubscript(expr) -> value # <<>>
      [] KeyOf(expr) \in {"c", "d"} -> value
      [] KeyOf(expr) = "xs" -> value.kind = "iter" \/ value.items # <<>>
      [] OTHER -> value # <<>>

\* The last line of the statement that begins at line i: the lines after i
\* that are indented deeper are its block.
BlockEnd(lines, i) ==
    LET ends == {j \in i..Len(lines) :
                    \A k \in (i + 1)..j : lines[k].level > lines[i].level}
    IN  CHOOSE j \in ends : \A k \in ends : k <= j

RECURSIVE SkipClauses(_, _, _)
\* The first line from i on that is no elif or else clause of the level.
SkipClauses(lines, level, i) ==
    IF i <= Len(lines) /\ lines[i].level = level
         /\ lines[i].code \in {"elif", "else"}
    THEN SkipClauses(lines, level, BlockEnd(lines, i) + 1)
    ELSE i

RECURSIVE RunLines(_, _, _, _, _)
RECURSIVE RunFor(_, _, _, _, _, _, _)
RECURSIVE RunForIterator(_, _, _, _, _)
RECURSIVE RunWhile(_, _, _, _, _)

\* The statements of lines lo..hi, from the state st: the state they leave.
\* A clause whose condition is false hands over to the elif or else that
\* follows its block; a for or while that ends hands over to its else.
RunLines(lines, lang, st, lo, hi) ==
    IF lo > hi \/ st.error # "none" THEN st
    ELSE
    LET ln == lines[lo]
        e == BlockEnd(lines, lo)
    IN  CASE ln.code = "yield" ->
               RunLines(lines, lang,
                        [st EXCEPT !.frags = Append(@, ln.text)], lo + 1, hi)
          [] ln.code = "pass" ->
               RunLines(lines, lang, st, lo + 1, hi)
          [] ln.code = "exec" ->
               RunLines(lines, lang,
                        [st EXCEPT !.ctx = ("n" :> <<"1">>) @@ @],
                        lo + 1, hi)
          [] ln.code \in {"yield_safe", "yield_str"} ->
               LET v == EvalIn(lines, ln.expr, st) IN
               IF v.error # "none" THEN [st EXCEPT !.error = v.error]
               ELSE RunLines(lines, lang,
                       [st EXCEPT !.frags =
                           Append(@, IF ln.code = "yield_safe"
                                     THEN Escape(lang, v.value)
                                     ELSE v.value)],
                       lo + 1, hi)
          [] ln.code \in {"if", "elif", "if_not"} ->
               LET v == EvalIn(lines, ln.expr, st) IN
               IF v.error # "none" THEN [st EXCEPT !.error = v.error]
               ELSE IF Truth(ln.expr, v.value) # (ln.code = "if_not")
               THEN RunLines(lines, lang,
                             RunLines(lines, lang, st, lo + 1, e),
                             SkipClauses(lines, ln.level, e + 1), hi)
               ELSE RunLines(lines, lang, st, e + 1, hi)
          [] ln.code = "else" ->
               RunLines(lines, lang,
                        RunLines(lines, lang, st, lo + 1, e), e + 1, hi)
          [] ln.code = "for" ->
               LET v == EvalIn(lines, ForIter(ln.expr), st) IN
               IF v.error # "none" THEN [st EXCEPT !.error = v.error]
               ELSE RunLines(lines, lang,
                       IF v.value.kind = "list"
                       THEN RunFor(lines, lang, st, lo, e, v.value.items, 1)
                       ELSE RunForIterator(lines, lang, st, lo, e),
                       e + 1, hi)
          [] ln.code = "while" ->
               RunLines(lines, lang, RunWhile(lines, lang, st, lo, e),
                        e + 1, hi)

\* for <var> in <list>: the block once per element, from element i on.
RunFor(lines, lang, st, lo, e, items, i) ==
    IF st.error # "none" \/ i > Len(items) THEN st
    ELSE RunFor(lines, lang,
                RunLines(lines, lang,
                         [st EXCEPT !.locals =
                             (ForVar(lines[lo].expr) :> items[i]) @@ @],
                         lo + 1, e),
                lo, e, items, i + 1)

\* for <var> in <iterator>: each pass takes the next element out of the
\* iterator, until it has none.
RunForIterator(lines, lang, st, lo, e) ==
    LET key == KeyOf(ForIter(lines[lo].expr)) IN
    IF st.error # "none" \/ st.ctx[key].items = <<>> THEN st
    ELSE RunForIterator(lines, lang,
            RunLines(lines, lang,
                     [st EXCEPT
                        !.ctx[key].items = Tail(@),
                        !.locals = (ForVar(lines[lo].expr)
                                       :> Head(st.ctx[key].items)) @@ @],
                     lo + 1, e),
            lo, e)

\* while <condition>: a pass that leaves the names as it found them is
\* followed by the same pass for ever.
RunWhile(lines, lang, st, lo, e) ==
    IF st.error # "none" THEN st
    ELSE
    LET v == EvalIn(lines, lines[lo].expr, st) IN
    IF v.error # "none" THEN [st EXCEPT !.error = v.error]
    ELSE IF ~Truth(lines[lo].expr, v.value) THEN st
    ELSE LET pass == RunLines(lines, lang, st, lo + 1, e) IN
         IF pass.error = "none" /\ pass.ctx = st.ctx
              /\ pass.locals = st.locals
         THEN [pass EXCEPT !.error = "NeverReturns"]
         ELSE RunWhile(lines, lang, pass, lo, e)

\* Template.render(context) of the compiled template: the function's
\* fragments joined; join refuses the None a function without yield returns.
RenderTemplate(lines, lang, ctx) ==
    LET run == RunLines(lines, lang, RunStart(ctx), 1, Len(lines)) IN
    CASE run.error # "none" -> [kind |-> run.error, text |-> <<>>]
      [] ~HasYield(lines) -> [kind |-> "TypeError", text |-> <<>>]
      [] OTHER -> [kind |-> "str", text |-> Concat(run.frags)]

\* ------------------------------------------------------------------------
\* SpecCompile, SpecOutput: compiling a template read token by token
\* ------------------------------------------------------------------------

\* Tokens of one template, at most, in SpecCompile.
MaxTokens == 3
\* Tokens of one template, at most, in SpecOutput.
MaxOutputTokens == 2
\* Characters of the text after the last token, at most, in SpecOutput.
MaxTextLen == 2

TextsUpTo(n) == UNION {[1..k -> Chars] : k \in 0..n}

TagCount(text) == Cardinality({i \in 1..Len(text) : IsTag(text[i])})

\* The locals of the compiler, as one record.
Compiler ==
    [ function_string |-> function_string,
      indentation_level |-> indentation_level,
      nested_if_statements |-> nested_if_statements,
      nested_for_loops |-> nested_for_loops,
      nested_while_loops |-> nested_while_loops,
      nested_autoescape_modes |-> nested_autoescape_modes,
      last_token_was_block |-> last_token_was_block,
      offset |-> offset,
      raised |-> raised ]

SetCompiler(c) ==
    /\ function_string' = c.function_string
    /\ indentation_level' = c.indentation_level
    /\ nested_if_statements' = c.nested_if_statements
    /\ nested_for_loops' = c.nested_for_loops
    /\ nested_while_loops' = c.nested_while_loops
    /\ nested_autoescape_modes' = c.nested_autoescape_modes
    /\ last_token_was_block' = c.last_token_was_block
    /\ offset' = c.offset
    /\ raised' = c.raised

\* The languages: Language.HTML, Language.XML, Language.MARKDOWN
Languages == {"html", "xml", "markdown"}

\* Template(template_string, language=...): the compiler is about to scan
\* the template.
CompileBegins(languages) ==
    /\ RenderIdle
    /\ ResolveIdle
    /\ phase = "scan"
    /\ template = <<>>
    /\ language \in languages
    /\ DefaultFlags
    /\ function_string = CompilerStart.function_string
    /\ indentation_level = CompilerStart.indentation_level
    /\ nested_if_statements = CompilerStart.nested_if_statements
    /\ nested_for_loops = CompilerStart.nested_for_loops
    /\ nested_while_loops = CompilerStart.nested_while_loops
    /\ nested_autoescape_modes = CompilerStart.nested_autoescape_modes
    /\ last_token_was_block = CompilerStart.last_token_was_block
    /\ offset = CompilerStart.offset
    /\ raised = CompilerStart.raised
    /\ context = <<>>
    /\ rendered = [kind |-> "none", text |-> <<>>]

\* Template(template_string): the language is the default, Language.HTML.
InitCompile == CompileBegins({"html"})

\* One pass of the token loop: _find_token finds a tag of 'tags' after a
\* text of 'texts'.
ScanToken(texts, tags, bound) ==
    /\ phase = "scan"
    /\ TagCount(template) < bound
    /\ \E text \in texts, tag \in tags :
          LET c == CompileToken(Compiler, text, tag) IN
          /\ template' = template \o text \o <<tag>>
          /\ SetCompiler(c)
          /\ phase' = IF c.raised.type = "none" THEN "scan" ELSE "failed"
    /\ UNCHANGED <<language, context, rendered>>
    /\ UNCHANGED <<trim_blocks, lstrip_blocks>>
    /\ UNCHANGED <<renderVars, resolveVars>>

\* _find_token finds no further tag: a text of 'texts' ends the template.
EndOfInput(texts) ==
    /\ phase = "scan"
    /\ \E text \in texts :
          LET c == FinishCompile(Compiler, text) IN
          /\ template' = template \o text
          /\ SetCompiler(c)
          /\ phase' = IF c.raised.type = "none" THEN "compiled" ELSE "failed"
    /\ UNCHANGED <<language, context, rendered>>
    /\ UNCHANGED <<trim_blocks, lstrip_blocks>>
    /\ UNCHANGED <<renderVars, resolveVars>>

\* The contexts of the render calls.
Contexts == { <<>>, ("name" :> <<"W">>), ("name" :> <<"<", "W">>) }

\* template.render(context) on the compiled template, the context one of
\* 'contexts'
RenderWith(contexts) ==
    /\ phase = "compiled"
    /\ \E ctx \in contexts :
          /\ context' = ctx
          /\ rendered' = RenderTemplate(function_string, language, ctx)
    /\ phase' = "rendered"
    /\ UNCHANGED <<template, language, function_string, indentation_level,
                   nested_if_statements, nested_for_loops,
                   nested_while_loops, nested_autoescape_modes,
                   last_token_was_block, offset, raised>>
    /\ UNCHANGED <<trim_blocks, lstrip_blocks>>
    /\ UNCHANGED <<renderVars, resolveVars>>

RenderCompiled == RenderWith(Contexts)

\* SpecCompile: templates of structural tags and expressions.
StructureTags ==
    { "{% if context['c'] %}", "{% elif context['d'] %}", "{% else %}",
      "{% endif %}", "{% for x in context['xs'] %}", "{% empty %}",
      "{% endfor %}", "{% while context['c'] %}", "{% endwhile %}",
      "{{ context['name'] }}" }

StructureTexts == { <<>>, <<"a">> }

ScanStructure == ScanToken(StructureTexts, StructureTags, MaxTokens)

EndStructure == EndOfInput(StructureTexts)

NextCompile == ScanStructure \/ EndStructure

SpecCompile == InitCompile /\ [][NextCompile]_vars

\* SpecOutput: templates of text, expressions and exec, compiled and
\* rendered.
OutputTags ==
    { "{{ name }}", "{{ context['name'] }}", "{% exec context['n'] = 1 %}" }

OutputTexts == { <<>>, <<"a">>, <<"\n">>, <<"\n", " ">> }

ScanOutput == ScanToken(OutputTexts, OutputTags, MaxOutputTokens)

EndOutput == EndOfInput(TextsUpTo(MaxTextLen))

NextOutput == ScanOutput \/ EndOutput \/ RenderCompiled

SpecOutput == InitCompile /\ [][NextOutput]_vars

\* SpecLoop: templates of a for loop with its empty clause, compiled and
\* rendered over lists and iterators.
MaxLoopTokens == 4
\* Elements of context['xs'], at most.
MaxLoopItems == 2

LoopTags ==
    { "{% for x in context['xs'] %}", "{% empty %}", "{% endfor %}",
      "{{ x }}" }

LoopTexts == { <<>>, <<"a">>, <<"b">> }

\* The lists <<'1'>>, <<'1', '2'>>, ... of strings of one digit
ItemLists ==
    { [i \in 1..n |-> <<ToString(i)>>] : n \in 0..MaxLoopItems }

LoopContexts ==
    { ("xs" :> List(items)) : items \in ItemLists }
        \cup { ("xs" :> Iterator(items)) : items \in ItemLists }

NextLoop ==
    \/ ScanToken(LoopTexts, LoopTags, MaxLoopTokens)
    \/ EndOfInput(LoopTexts)
    \/ RenderWith(LoopContexts)

SpecLoop == InitCompile /\ [][NextLoop]_vars

\* SpecEscape: templates of autoescape tags and expressions, compiled for
\* each language and rendered.
MaxEscapeTokens == 4

EscapeTags ==
    { "{% autoescape on %}", "{% autoescape off %}", "{% endautoescape %}",
      "{{ context['name'] }}" }

EscapeTexts == { <<>>, <<"a">> }

\* A value each escaper changes, and one none does.
EscapeContexts == { ("name" :> <<"<", "&", "*">>), ("name" :> <<"W">>) }

NextEscape ==
    \/ ScanToken(EscapeTexts, EscapeTags, MaxEscapeTokens)
    \/ EndOfInput(EscapeTexts)
    \/ RenderWith(EscapeContexts)

SpecEscape == CompileBegins(Languages) /\ [][NextEscape]_vars

\* ------------------------------------------------------------------------
\* Claims about compiling
\* ------------------------------------------------------------------------

\* C4: for a template without tags (the empty one and one that starts with
\* a newline included) construction succeeds and render(context) is the
\* template source, for every context.
C4_TagFreeRendersSource ==
    (TagCount(template) = 0 /\ phase \in {"compiled", "failed", "rendered"})
        =>
        /\ phase # "failed"
        /\ phase = "rendered" => rendered = [kind |-> "str", text |-> template]

RECURSIVE ExpandTag(_, _, _)
\* The text with each occurrence of the tag replaced by the value.
ExpandTag(text, tag, value) ==
    IF text = <<>> THEN <<>>
    ELSE (IF Head(text) = tag THEN value ELSE <<Head(text)>>)
             \o ExpandTag(Tail(text), tag, value)

\* A one-line template whose tags are all {{ name }}, one at least.
OnlyNameTags(text) ==
    /\ TagCount(text) > 0
    /\ \A i \in 1..Len(text) : IsTag(text[i]) => text[i] = "{{ name }}"
    /\ \A i \in 1..Len(text) : text[i] # "\n"

\* C5: an expression tag whose body is a bare name that is a key of the
\* render context evaluates to the context's value for that key: the
\* template renders with each {{ name }} replaced by the (escaped) value.
C5_BareNameIsContextValue ==
    (phase = "rendered" /\ OnlyNameTags(template) /\ "name" \in DOMAIN context)
        =>
        rendered = [kind |-> "str",
                    text |-> ExpandTag(template, "{{ name }}",
                                       Escape(language, context["name"]))]

\* The tag closes or continues a construct of a kind whose stack is empty.
MeetsEmptyStack(tag) ==
    \/ /\ RowOf(tag).word \in {"elif", "else", "endif"}
       /\ nested_if_statements = <<>>
    \/ /\ RowOf(tag).word \in {"empty", "endfor"}
       /\ nested_for_loops = <<>>
    \/ /\ RowOf(tag).word = "endwhile"
       /\ nested_while_loops = <<>>

OpenTokens ==
    {nested_if_statements[i] : i \in 1..Len(nested_if_statements)}
        \cup {nested_for_loops[i] : i \in 1..Len(nested_for_loops)}
        \cup {nested_while_loops[i] : i \in 1..Len(nested_while_loops)}

\* One step of the compiler, as C6 has it.
C6_Step ==
    /\ (phase = "scan" /\ TagCount(template') > TagCount(template)
          /\ MeetsEmptyStack(template'[Len(template')]))
        =>
        /\ phase' = "failed"
        /\ raised'.type = "TemplateSyntaxError"
        /\ raised'.token =
              Token(Len(template') - 1, template'[Len(template')])
    /\ (phase = "scan" /\ TagCount(template') = TagCount(template)
          /\ phase' # "scan"
          /\ OpenTokens # {})
        =>
        /\ phase' = "failed"
        /\ raised'.type = "TemplateSyntaxError"
        /\ raised'.token \in OpenTokens
        /\ template[raised'.token.start_position + 1] = raised'.token.content
        /\ RowOf(raised'.token.content).word \in {"if", "for", "while"}

\* C6: compilation raises TemplateSyntaxError positioned at the offending
\* tag, and produces no Template, whenever an elif/else/endif, empty/endfor
\* or endwhile tag is met while the stack of its kind is empty, and whenever
\* an if, for or while opener is still open at end of input.
C6_UnmatchedTagsFail == [][C6_Step]_vars

\* C6 witness: an endfor met with no for open, while an if is open.
C6_Witness ==
    /\ phase = "failed"
    /\ raised.type = "TemplateSyntaxError"
    /\ raised.token.content = "{% endfor %}"
    /\ nested_if_statements # <<>>

\* The stack whose unclosed construct the error reports.
ReportedStack ==
    CASE raised.reason = "No matching {% endif %}" -> nested_if_statements
      [] raised.reason = "No matching {% endfor %}" -> nested_for_loops
      [] raised.reason = "No matching {% endwhile %}" -> nested_while_loops
      [] OTHER -> <<>>

UnclosedReported ==
    /\ phase = "failed"
    /\ raised.reason \in {"No matching {% endif %}",
                          "No matching {% endfor %}",
                          "No matching {% endwhile %}"}

\* C7 as stated: with several constructs of one kind unclosed at end of
\* input, the error is positioned at the outermost unclosed tag of the kind.
C7_OutermostUnclosed ==
    UnclosedReported => 
        \A i \in 1..Len(ReportedStack) :
           raised.token.start_position <= ReportedStack[i].start_position

\* C7 amended: the error reports the first kind, of if, for and while, that
\* has an unclosed construct, and is positioned at the innermost (last
\* opened) unclosed tag of that kind.
C7_InnermostUnclosed ==
    UnclosedReported => 
        /\ \E i \in 1..Len(ReportedStack) : raised.token = ReportedStack[i]
        /\ \A i \in 1..Len(ReportedStack) :
              ReportedStack[i].start_position <= raised.token.start_position
        /\ template[raised.token.start_position + 1] = raised.token.content
        /\ raised.reason = "No matching {% endfor %}" =>
              nested_if_statements = <<>>
        /\ raised.reason = "No matching {% endwhile %}" =>
              nested_if_statements = <<>> /\ nested_for_loops = <<>>

\* C7 witness: two ifs are left unclosed and the error is at the second.
C7_Witness ==
    /\ UnclosedReported
    /\ Len(nested_if_statements) = 2
    /\ raised.token = nested_if_statements[2]

\* ------------------------------------------------------------------------
\* Includes, blocks and extends
\* ------------------------------------------------------------------------

\* pattern.search(text[from:]), the pattern given as the set of the strings
\* it matches: the index, counted from 1 in text, of the first element
\* after the first 'from' elements that matches; 0 if none.
First(text, from, pattern) ==
    LET found == {i \in (from + 1)..Len(text) : text[i] \in pattern}
    IN  IF found = {} THEN 0
        ELSE CHOOSE i \in found : \A j \in found : i <= j

\* The element of a set of one element.
The(S) == CHOOSE v \in S : TRUE

\* _EXTENDS_PATTERN
IsExtends(e) == IsTag(e) /\ RowOf(e).word = "extends"

\* _BLOCK_PATTERN: {% block \w+? %}
IsBlock(e) == IsTag(e) /\ RowOf(e).word = "block" /\ RowOf(e).arg # ""

\* An endblock tag whatever follows the word.
IsEndblock_anyName(e, name) == IsTag(e) /\ RowOf(e).word = "endblock"

\* _find_endblock(template, name): {% endblock <name> %}
IsEndblock(e, name) ==
    IsTag(e) /\ RowOf(e).word = "endblock" /\ RowOf(e).arg = name

\* _INCLUDE_PATTERN
IsInclude(e) == IsTag(e) /\ RowOf(e).word = "include"

\* The strings each pattern matches.
TokenPattern == Tags

ExtendsPattern == {t \in Tags : IsExtends(t)}

BlockPattern == {t \in Tags : IsBlock(t)}

EndblockPattern(name) == {t \in Tags : IsEndblock(t, name)}

IncludePattern == {t \in Tags : IsInclude(t)}

\* The text as it is.
StrReplace_keepsText(text, tag, value) == text

RECURSIVE StrReplace(_, _, _)
\* text.replace(tag, value)
StrReplace(text, tag, value) ==
    IF text = <<>> THEN <<>>
    ELSE (IF Head(text) = tag THEN value ELSE <<Head(text)>>)
             \o StrReplace(Tail(text), tag, value)

TemplateNotFoundError(path) ==
    [type |-> "TemplateNotFoundError", token |-> NoToken, reason |-> path]

\* template[start:end] with elements counted from 0, end excluded
Slice(text, start, end) == SubSeq(text, start + 1, end)

RECURSIVE ResolveIncludes(_, _)
\* _resolve_includes: each include tag is replaced by the text of its file,
\* the first one first; the result is the text and the error raised.
ResolveIncludes(text, fs) ==
    LET i == First(text, 0, IncludePattern) IN
    IF i = 0 THEN [text |-> text, raised |-> NoError]
    ELSE LET template_path == RowOf(text[i]).arg IN
         IF template_path \notin DOMAIN fs
         THEN [text |-> text, raised |-> TemplateNotFoundError(template_path)]
         ELSE ResolveIncludes(Slice(text, 0, i - 1) \o fs[template_path]
                                  \o Slice(text, i, Len(text)), fs)

RECURSIVE SaveBlocks(_, _, _)
\* One pass of the loop that saves the block replacements of a child
\* template: block_match is the element b, endblock_match the element e
\* (0: there is none); the loop goes on after the endblock.
SaveBlock(text, off, replacements, b, e) ==
    LET block_name == RowOf(text[b]).arg
        between == First(Slice(text, 0, b - 1), off, TokenPattern)
        block_content == Slice(text, b, e - 1)
        nested == First(block_content, 0, BlockPattern)
        Fails(token, reason) ==
            [replacements |-> replacements,
             raised |-> TemplateSyntaxError(token, reason)]
    IN  IF between # 0
        THEN Fails(Token(between - 1, text[between]), "Token between blocks")
        ELSE IF e = 0
        THEN Fails(Token(b - 1, text[b]), "No matching {% endblock %}")
        ELSE IF nested # 0
        THEN Fails(Token(b + nested - 1, block_content[nested]),
                   "Nested blocks are not supported")
        ELSE The({ SaveBlocks(text, e, saved) :
                   saved \in {
                     IF block_name \in DOMAIN replacements
                     THEN [replacements EXCEPT ![block_name] =
                             StrReplace(@, "{{ block.super }}",
                                        block_content)]
                     ELSE replacements @@ (block_name :> block_content) } })

\* The loop that saves the block replacements of a child template, from
\* 'off' on: the result is the map and the error raised.
SaveBlocks(text, off, replacements) ==
    The({ IF b = 0 THEN [replacements |-> replacements, raised |-> NoError]
          ELSE The({ SaveBlock(text, off, replacements, b, e) :
                     e \in {First(text, off,
                                  EndblockPattern(RowOf(text[b]).arg))} }) :
          b \in {First(text, off, BlockPattern)} })

\* One pass of the loop over the extends tags: the template has one.
ExtendsPass(text, extended, replacements, fs) ==
    LET x == First(text, 0, ExtendsPattern)
        extended_template_path == RowOf(text[x]).arg
        Fails(working, error) ==
            [template |-> working, extended |-> extended,
             replacements |-> replacements, raised |-> error]
        \* from 'offset = extends_match.end()' on, the includes resolved
        Blocks(working, off) ==
            LET stacked == First(working, off, ExtendsPattern)
                saved == SaveBlocks(working, off, replacements)
            IN  IF stacked # 0
                THEN Fails(working,
                           TemplateSyntaxError(
                               Token(stacked - 1, working[stacked]),
                               "Incorrect use of {% extends ... %}"))
                ELSE The({ IF done.raised.type # "none"
                           THEN Fails(working, done.raised)
                           ELSE [template |-> fs[extended_template_path],
                                 extended |->
                                     extended \cup {extended_template_path},
                                 replacements |-> done.replacements,
                                 raised |-> NoError] :
                           done \in {saved} })
    IN  IF extended_template_path \notin DOMAIN fs
        THEN Fails(text, TemplateNotFoundError(extended_template_path))
        ELSE IF extended_template_path \in extended
        THEN Fails(text, TemplateSyntaxError(Token(x - 1, text[x]),
                                             "Circular extends"))
        ELSE The({ IF included.raised.type # "none"
                   THEN Fails(included.text, included.raised)
                   ELSE The({ Blocks(working, off) :
                              working \in {included.text}, off \in {x} }) :
                   included \in {ResolveIncludes(text, fs)} })

\* One pass of the loop of _replace_blocks_with_replacements: block_match
\* is the element b, endblock_match the element e (0: there is none).
ReplaceBlock(text, replacements, b, e) ==
    LET block_name == RowOf(text[b]).arg
        block_content == Slice(text, b, e - 1)
        nested == First(block_content, 0, BlockPattern)
    IN  IF e = 0
        THEN [text |-> Slice(text, 0, b - 1)
                          \o (IF block_name \in DOMAIN replacements
                              THEN replacements[block_name] ELSE <<>>)
                          \o Slice(text, b, Len(text)),
              raised |-> NoError]
        ELSE IF nested # 0
        THEN [text |-> text,
              raised |-> TemplateSyntaxError(
                             Token(b + nested - 1, block_content[nested]),
                             "Nested blocks are not supported")]
        ELSE [text |-> Slice(text, 0, b - 1)
                          \o (IF block_name \notin DOMAIN replacements
                              THEN block_content
                              ELSE StrReplace(replacements[block_name],
                                              "{{ block.super }}",
                                              block_content))
                          \o Slice(text, e, Len(text)),
              raised |-> NoError]

\* The pass for the first block tag of the template, which has one.
ReplacePass(text, replacements) ==
    The({ The({ ReplaceBlock(text, replacements, b, e) :
                e \in {First(text, 0,
                             EndblockPattern(RowOf(text[b]).arg))} }) :
          b \in {First(text, 0, BlockPattern)} })

\* ------------------------------------------------------------------------
\* Comments
\* ------------------------------------------------------------------------

\* A hash comment, one element of the lexed text; _TOKEN_PATTERN does not
\* match it.
HashComment == "{# note #}"

\* _HASH_COMMENT_PATTERN
IsHashComment(e) == e = HashComment

IsComment(e) == IsTag(e) /\ RowOf(e).word = "comment"

IsEndcomment(e) == IsTag(e) /\ RowOf(e).word = "endcomment"

HashCommentPattern == {HashComment}

CommentPattern == {t \in Tags : IsComment(t)}

EndcommentPattern == {t \in Tags : IsEndcomment(t)}

\* _remove_matched_comment, the comment_match being the elements from..to;
\* trim and lstrip are the trim_blocks and lstrip_blocks parameters of
\* _remove_comments.
RemoveMatchedComment(text, from, to, trim, lstrip) ==
    LET before == Slice(text, 0, from - 1)
        after == Slice(text, to, Len(text))
        text_before_comment ==
            IF before # <<>> /\ lstrip /\ TokenIsOnOwnLine(before)
            THEN RStripSpaces(before) ELSE before
        text_after_comment ==
            IF after # <<>> /\ trim /\ StartsWithNewline(after)
            THEN Tail(after) ELSE after
    IN  text_before_comment \o text_after_comment

\* The two pieces a hash comment falls into when something stands between
\* its opening brace and the rest.
HashOpen == "{"

HashRest == "# note #}"

\* The text spells a hash comment from element i on: in one element, or in
\* the two pieces next to each other.
HashCommentAt(text, i) ==
    \/ text[i] \in HashCommentPattern
    \/ i < Len(text) /\ text[i] = HashOpen /\ text[i + 1] = HashRest

\* _find_hash_comment: the first and the last element of the leftmost
\* match, <<0, 0>> when there is none.
FindHashComment(text) ==
    LET starts == {i \in 1..Len(text) : HashCommentAt(text, i)} IN
    IF starts = {} THEN <<0, 0>>
    ELSE LET i == CHOOSE k \in starts : \A j \in starts : k <= j
         IN  <<i, IF text[i] \in HashCommentPattern THEN i ELSE i + 1>>

RECURSIVE RemoveHashComments(_, _, _)
RemoveHashComments(text, trim, lstrip) ==
    LET match == FindHashComment(text) IN
    IF match[1] = 0 THEN text
    ELSE RemoveHashComments(
             RemoveMatchedComment(text, match[1], match[2], trim, lstrip),
             trim, lstrip)

RECURSIVE RemoveBlockComments(_, _, _)
\* _BLOCK_COMMENT_PATTERN: from the first comment tag to the first
\* endcomment tag after it.
RemoveBlockComments(text, trim, lstrip) ==
    LET i == First(text, 0, CommentPattern)
        j == IF i = 0 THEN 0 ELSE First(text, i, EndcommentPattern)
    IN  IF j = 0 THEN text
        ELSE RemoveBlockComments(
                 RemoveMatchedComment(text, i, j, trim, lstrip), trim, lstrip)

\* _remove_comments(template, trim_blocks=trim, lstrip_blocks=lstrip)
RemoveComments(text, trim, lstrip) ==
    RemoveBlockComments(RemoveHashComments(text, trim, lstrip), trim, lstrip)

\* _remove_comments(template) as _create_template_rendering_function calls
\* it: neither flag is passed on, so both parameters take their default,
\* True.
RemoveCommentsOfTemplate(text) == RemoveComments(text, TRUE, TRUE)

\* ------------------------------------------------------------------------
\* The token loop over a whole template
\* ------------------------------------------------------------------------

RECURSIVE CompileFrom(_, _)
\* The token loop and what follows it, from the offset of c on.
CompileFrom(c, text) ==
    LET i == First(text, c.offset, TokenPattern) IN
    IF i = 0 THEN FinishCompile(c, Slice(text, c.offset, Len(text)))
    ELSE LET done == CompileToken(c, Slice(text, c.offset, i - 1), text[i])
         IN  IF done.raised.type # "none" THEN done
             ELSE CompileFrom(done, text)

\* ------------------------------------------------------------------------
\* SpecResolve: Template(template_string) over a file system
\* ------------------------------------------------------------------------

\* The longest working text the memory holds, in elements.
MaxFlatLen == 12

\* The texts of base.html
BaseTexts ==
    { <<"x", "{% block a %}", "b", "{% endblock a %}", "y">>,
      <<"x", "{% block a %}", "y">>,
      <<"{% block a %}", "b", "{% endblock %}">>,
      <<"{% endblock a %}", "x", "{% block a %}">>,
      <<"{% block a %}", "b", "{% endblock a %}",
        "{% block b %}", "{% endblock b %}">>,
      <<"{% block a %}", "{% block b %}", "{% endblock b %}",
        "{% endblock a %}">>,
      <<"{# note #}", "\n", "{% block a %}", "b", "{% endblock a %}",
        "{% include 'foot.html' %}">>,
      <<"{% extends 'page.html' %}", "{% block a %}", "b",
        "{{ block.super }}", "{% endblock a %}">>,
      <<"{% extends 'base.html' %}">> }

\* The texts of page.html
PageTexts ==
    { <<"{% extends 'base.html' %}", "{% block a %}", "p",
        "{{ block.super }}", "{% endblock a %}">>,
      <<"{% extends 'base.html' %}", "{% block a %}", "p",
        "{% endblock a %}">>,
      <<"{% extends 'base.html' %}">>,
      <<"{% extends 'base.html' %}", "{% block a %}", "p",
        "{% endblock %}">>,
      <<"{% extends 'base.html' %}", "a", "{{ context['name'] }}",
        "{% block a %}", "p", "{% endblock a %}">>,
      <<"{% extends 'base.html' %}", "{% extends 'page.html' %}">>,
      <<"a", "{% extends 'base.html' %}", "{% block a %}", "p",
        "{% endblock a %}">>,
      <<"{% extends 'missing.html' %}">>,
      <<"{% extends 'page.html' %}">> }

\* The strings given to Template(...)
StringTexts ==
    { <<"{% extends 'page.html' %}", "{% block a %}", "c", "-",
        "{{ block.super }}", "{% endblock a %}">>,
      <<"{% extends 'page.html' %}", "{% block a %}", "c",
        "{% endblock a %}">>,
      <<"{% extends 'base.html' %}", "{% block a %}", "c", "-",
        "{{ block.super }}", "{% endblock a %}">>,
      <<"{% extends 'page.html' %}", "{% block b %}", "c",
        "{% endblock b %}", "{% block a %}", "{{ block.super }}", "c",
        "{% endblock a %}", "{{ context['name'] }}">>,
      <<"a", "{% include 'missing.html' %}">> }

\* The file systems
FileSystems ==
    { ("base.html" :> base) @@ ("page.html" :> page)
          @@ ("foot.html" :> <<"f">>) :
      base \in BaseTexts, page \in PageTexts }

\* Template(template_string), or FileTemplate(path), which reads the string
\* from the file: _resolve_includes_blocks_and_extends is about to begin.
InitResolve ==
    /\ RenderIdle
    /\ files \in FileSystems
    /\ template_string \in
          StringTexts \cup {files["page.html"], files["base.html"]}
    /\ extended_templates = {}
    /\ block_replacements = <<>>
    /\ phase = "resolve"
    /\ template = template_string
    /\ language = "html"
    /\ DefaultFlags
    /\ function_string = CompilerStart.function_string
    /\ indentation_level = CompilerStart.indentation_level
    /\ nested_if_statements = CompilerStart.nested_if_statements
    /\ nested_for_loops = CompilerStart.nested_for_loops
    /\ nested_while_loops = CompilerStart.nested_while_loops
    /\ nested_autoescape_modes = CompilerStart.nested_autoescape_modes
    /\ last_token_was_block = CompilerStart.last_token_was_block
    /\ offset = CompilerStart.offset
    /\ raised = CompilerStart.raised
    /\ context = <<>>
    /\ rendered = [kind |-> "none", text |-> <<>>]

compilerLocals ==
    <<function_string, indentation_level, nested_if_statements,
      nested_for_loops, nested_while_loops, nested_autoescape_modes,
      last_token_was_block, offset>>

\* One pass of 'while (extends_match := _find_extends(template))'
ExtendsStep ==
    /\ phase = "resolve"
    /\ First(template, 0, ExtendsPattern) # 0
    /\ \E pass \in {ExtendsPass(template, extended_templates,
                                block_replacements, files)} :
           /\ template' = pass.template
           /\ extended_templates' = pass.extended
           /\ block_replacements' = pass.replacements
           /\ raised' = pass.raised
           /\ phase' = IF pass.raised.type = "none" THEN "resolve"
                       ELSE "failed"
    /\ UNCHANGED <<files, template_string, language, context, rendered>>
    /\ UNCHANGED compilerLocals
    /\ UNCHANGED <<trim_blocks, lstrip_blocks>>
    /\ UNCHANGED renderVars

\* The loop over the extends tags is left: the includes of the top-level
\* template are resolved.
TopLevelStep ==
    /\ phase = "resolve"
    /\ First(template, 0, ExtendsPattern) = 0
    /\ \E included \in {ResolveIncludes(template, files)} :
           /\ template' = included.text
           /\ raised' = included.raised
           /\ phase' = IF included.raised.type = "none" THEN "replace"
                       ELSE "failed"
    /\ UNCHANGED <<files, template_string, extended_templates,
                   block_replacements, language, context, rendered>>
    /\ UNCHANGED compilerLocals
    /\ UNCHANGED <<trim_blocks, lstrip_blocks>>
    /\ UNCHANGED renderVars

\* One pass of 'while (block_match := _find_block(template))' in
\* _replace_blocks_with_replacements, or its end.  A text that has grown
\* beyond MaxFlatLen stands for one the memory cannot hold: the loop has
\* not ended, the interpreter ends the call with MemoryError.
ReplaceStep ==
    /\ phase = "replace"
    /\ \E found \in {First(template, 0, BlockPattern)} :
       \E pass \in {IF found = 0
                    THEN [text |-> template, raised |-> NoError]
                    ELSE ReplacePass(template, block_replacements)} :
           /\ template' = pass.text
           /\ raised' = pass.raised
           /\ phase' = IF found = 0 THEN "resolved"
                       ELSE IF pass.raised.type # "none" THEN "failed"
                       ELSE IF Len(pass.text) > MaxFlatLen THEN "exhausted"
                       ELSE "replace"
    /\ UNCHANGED <<files, template_string, extended_templates,
                   block_replacements, language, context, rendered>>
    /\ UNCHANGED compilerLocals
    /\ UNCHANGED <<trim_blocks, lstrip_blocks>>
    /\ UNCHANGED renderVars

\* The rest of _create_template_rendering_function: the comments are
\* removed and the flat template is compiled.
CompileStep ==
    /\ phase = "resolved"
    /\ \E flat \in {RemoveCommentsOfTemplate(template)} :
       \E c \in {CompileFrom(CompilerStart, flat)} :
           /\ template' = flat
           /\ SetCompiler(c)
           /\ phase' = IF c.raised.type = "none" THEN "compiled"
                       ELSE "failed"
    /\ UNCHANGED <<language, context, rendered>>
    /\ UNCHANGED <<trim_blocks, lstrip_blocks>>
    /\ UNCHANGED <<renderVars, resolveVars>>

NextResolve ==
    \/ ExtendsStep
    \/ TopLevelStep
    \/ ReplaceStep
    \/ CompileStep
    \/ RenderCompiled

SpecResolve == InitResolve /\ [][NextResolve]_vars

\* The interpreter goes on running the resolution it has begun.
SpecResolveFair ==
    SpecResolve /\ WF_vars(ExtendsStep \/ TopLevelStep \/ ReplaceStep)

\* ------------------------------------------------------------------------
\* Claims about blocks and extends
\* ------------------------------------------------------------------------

RECURSIVE Chain(_, _, _)
\* The texts of an extends chain, the most derived first and the root last,
\* each with its includes resolved; at most n ancestors are followed.
Chain(text, fs, n) ==
    LET level == ResolveIncludes(text, fs).text
        x == First(level, 0, ExtendsPattern)
    IN  IF x = 0 \/ n = 0 THEN <<level>>
        ELSE <<level>> \o Chain(fs[RowOf(level[x]).arg], fs, n - 1)

BlockOrEndblock(e) == IsTag(e) /\ RowOf(e).word \in {"block", "endblock"}

BlockOrEndblockPattern == {t \in Tags : BlockOrEndblock(t)}

RECURSIVE Paired(_)
\* Every block tag of the text is closed by the endblock tag of its name
\* before another block tag opens, and no other endblock tag occurs.
Paired(text) ==
    IF text = <<>> THEN TRUE
    ELSE IF IsBlock(Head(text))
    THEN LET e == First(text, 1, BlockOrEndblockPattern) IN
         /\ e # 0
         /\ RowOf(text[e]).word = "endblock"
         /\ RowOf(text[e]).arg = RowOf(Head(text)).arg
         /\ Paired(SubSeq(text, e + 1, Len(text)))
    ELSE ~BlockOrEndblock(Head(text)) /\ Paired(Tail(text))

\* The definitions of the block named n in the text
DefinitionsOf(text, n) ==
    {b \in 1..Len(text) : IsBlock(text[b]) /\ RowOf(text[b]).arg = n}

\* The body of the definition of n in a paired text that defines it once
BodyOf(text, n) ==
    LET b == CHOOSE i \in DefinitionsOf(text, n) : TRUE
        e == First(text, b, BlockOrEndblockPattern)
    IN  SubSeq(text, b + 1, e - 1)

RECURSIVE ResolvedContent(_, _, _, _)
\* The content of block n as levels k.. of the chain define it, the root's
\* definition having the body 'default'.
ResolvedContent(levels, k, n, default) ==
    IF k = Len(levels) THEN default
    ELSE IF DefinitionsOf(levels[k], n) = {}
    THEN ResolvedContent(levels, k + 1, n, default)
    ELSE ExpandTag(BodyOf(levels[k], n), "{{ block.super }}",
                   ResolvedContent(levels, k + 1, n, default))

RECURSIVE Flattened(_, _)
\* The rest of the root text with each block replaced by its resolved
\* content.
Flattened(rest, levels) ==
    IF rest = <<>> THEN <<>>
    ELSE IF IsBlock(Head(rest))
    THEN LET e == First(rest, 1, BlockOrEndblockPattern) IN
         ResolvedContent(levels, 1, RowOf(Head(rest)).arg,
                         SubSeq(rest, 2, e - 1))
             \o Flattened(SubSeq(rest, e + 1, Len(rest)), levels)
    ELSE <<Head(rest)>> \o Flattened(Tail(rest), levels)

\* The chain of the template being resolved
Levels == Chain(template_string, files, Cardinality(DOMAIN files))

\* Every level pairs its blocks, and no child defines a block twice.
WellFormedChain ==
    \A k \in 1..Len(Levels) :
       /\ Paired(Levels[k])
       /\ k < Len(Levels) =>
             \A n \in {"a", "b"} :
                Cardinality(DefinitionsOf(Levels[k], n)) <= 1

\* C8: for an extends chain of any length, whose root gives each block a
\* default body, the resolved content of a block is its most derived
\* definition with {{ block.super }} replaced by the resolved content of the
\* next less derived definition, down to the root's default body; a level
\* without block.super discards what lies below it.
C8_BlockChainResolved ==
    (phase = "resolved" /\ WellFormedChain)
        => template = Flattened(Levels[Len(Levels)], Levels)

\* C8 witness: a string over page.html over base.html, each of the three
\* defining block a and the two children using block.super.
C8_Witness ==
    /\ phase = "resolved"
    /\ WellFormedChain
    /\ Len(Levels) = 3
    /\ template = <<"x", "c", "-", "p", "b", "y">>

\* No text of the file system, nor the string, has an include tag.
NoIncludeTags ==
    /\ First(template_string, 0, IncludePattern) = 0
    /\ \A path \in DOMAIN files : First(files[path], 0, IncludePattern) = 0

\* C9: for any finite set of template files without include tags,
\* resolving an extends chain always terminates: the resolution ends with
\* the flat template or with an error.
C9_ResolvingTerminates ==
    NoIncludeTags => <>(phase \in {"resolved", "compiled", "failed",
                                   "rendered"})

\* The part of C9 about cycles: the loop over the extends tags raises
\* 'Circular extends', at the extends tag it has found, exactly when that
\* tag names a path of extended_templates, a file that exists.
CircularExtendsStep ==
    (phase = "resolve" /\ First(template, 0, ExtendsPattern) # 0)
        =>
        LET x == First(template, 0, ExtendsPattern)
            path == RowOf(template[x]).arg
        IN  /\ (path \in extended_templates)
                  <=> (phase' = "failed"
                         /\ raised'.reason = "Circular extends")
            /\ path \in extended_templates =>
                  /\ raised'.type = "TemplateSyntaxError"
                  /\ raised'.token = Token(x - 1, template[x])
                  /\ path \in DOMAIN files
            /\ phase' = "resolve" =>
                  /\ extended_templates' = extended_templates \cup {path}
                  /\ path \notin extended_templates

C9_CircularExtendsRaises == [][CircularExtendsStep]_vars

\* The text has a block followed by an endblock tag without a name, and no
\* endblock tag with the block's name.
UnnamedClosed(text) ==
    \E b \in 1..Len(text) :
       /\ IsBlock(text[b])
       /\ \E u \in (b + 1)..Len(text) : text[u] = "{% endblock %}"
       /\ \A e \in 1..Len(text) :
             ~(IsTag(text[e]) /\ RowOf(text[e]).word = "endblock"
                 /\ RowOf(text[e]).arg = RowOf(text[b]).arg)

CompilationEnded == phase \in {"compiled", "failed", "rendered"}

\* C10 as stated: a block may be closed by an endblock tag without a name,
\* in a root template and in an extending child alike: the template
\* compiles.
C10_UnnamedEndblockCloses ==
    (CompilationEnded /\ UnnamedClosed(template_string)) => phase # "failed"

\* C10 amended: a block is closed only by an endblock tag with its name.  A
\* template whose block is followed by an endblock without a name, and has
\* no endblock of that name, fails to compile: in an extending child the
\* block tag raises 'No matching {% endblock %}'; in a root template the
\* block is taken as self-closing and the endblock tag left over raises
\* 'No matching {% block ... %}'.
C10_UnnamedEndblockFails ==
    (CompilationEnded /\ UnnamedClosed(template_string))
        =>
        /\ phase = "failed"
        /\ raised.type = "TemplateSyntaxError"
        /\ IF First(template_string, 0, ExtendsPattern) = 0
           THEN /\ raised.reason = "No matching {% block ... %}"
                /\ raised.token.content = "{% endblock %}"
           ELSE \/ /\ raised.reason = "No matching {% endblock %}"
                   /\ IsBlock(raised.token.content)
                \/ raised.reason \in {"Circular extends",
                                      "Incorrect use of {% extends ... %}",
                                      "Token between blocks"}

\* C10 witness: the root template {% block a %}b{% endblock %} has failed at
\* its endblock tag.
C10_Witness ==
    /\ phase = "failed"
    /\ template_string = <<"{% block a %}", "b", "{% endblock %}">>
    /\ raised.token.content = "{% endblock %}"

\* ------------------------------------------------------------------------
\* Claims about the place of the extends tag and of the tags around blocks
\* ------------------------------------------------------------------------

\* The resolution has returned the flat template.
Resolved == phase \in {"resolved", "compiled", "rendered"}

\* Something, text or a tag, precedes the first extends tag of the text.
ExtendsNotFirst(text) == First(text, 0, ExtendsPattern) > 1

\* C11: an extends tag is legal only as the template's first directive: a
\* template in which text or another tag precedes the extends tag fails to
\* compile with a TemplateSyntaxError; it is not composed with the ancestor.
C11_ExtendsMustBeFirst ==
    (ExtendsNotFirst(template_string) /\ (Resolved \/ phase = "failed"))
        =>
        /\ phase = "failed"
        /\ raised.type = "TemplateSyntaxError"

\* Element i of the text lies in the body of a block: after a block tag and
\* before the endblock tag of its name.
InBlockBody(text, i) ==
    \E b \in 1..(i - 1) :
       /\ IsBlock(text[b])
       /\ First(text, b, EndblockPattern(RowOf(text[b]).arg)) > i

\* The text begins with an extends tag, and after it has an expression or
\* statement tag, neither a block nor an endblock tag, outside every block
\* body.
StrayToken(text) ==
    /\ First(text, 0, ExtendsPattern) = 1
    /\ \E i \in 2..Len(text) :
          /\ IsTag(text[i])
          /\ ~BlockOrEndblock(text[i])
          /\ ~InBlockBody(text, i)

\* C20: in a template that extends another, a tag after the extends tag and
\* outside every block body makes the compilation fail; no such tag is
\* dropped and the template composed without it.
C20_StrayTokenFails ==
    StrayToken(template_string) => ~Resolved

\* ------------------------------------------------------------------------
\* Claims about the for loop and about autoescape
\* ------------------------------------------------------------------------

\* The place of the one {% empty %} tag of the text, 0 if it has none or
\* several.
EmptyAt(text) ==
    LET at == {i \in 1..Len(text) : text[i] = "{% empty %}"}
    IN  IF Cardinality(at) = 1 THEN CHOOSE i \in at : TRUE ELSE 0

\* The template is {% for x in context['xs'] %}body{% empty %}alt{% endfor %}
\* where body is text and {{ x }} tags and alt is a text, not the empty
\* one.
IsForEmpty(text) ==
    /\ Len(text) >= 4
    /\ text[Len(text) - 1] # "{% empty %}"
    /\ text[1] = "{% for x in context['xs'] %}"
    /\ text[Len(text)] = "{% endfor %}"
    /\ EmptyAt(text) # 0
    /\ \A i \in 2..(Len(text) - 1) :
          IsTag(text[i]) =>
             \/ i = EmptyAt(text)
             \/ i < EmptyAt(text) /\ text[i] = "{{ x }}"

ForBody(text) == SubSeq(text, 2, EmptyAt(text) - 1)

ForAlt(text) == SubSeq(text, EmptyAt(text) + 1, Len(text) - 1)

RECURSIVE BodyPerElement(_, _, _)
\* The body once per element of items, in order, {{ x }} being the escaped
\* element.
BodyPerElement(body, lang, items) ==
    IF items = <<>> THEN <<>>
    ELSE ExpandTag(body, "{{ x }}", Escape(lang, Head(items)))
            \o BodyPerElement(body, lang, Tail(items))

\* C12: for {% for x in ITER %}body{% empty %}alt{% endfor %} rendering
\* emits body once per element of ITER, in order, and never alt, when ITER
\* is non-empty; it emits alt once and never body when ITER is empty.
C12_ForEmptyRendersBodyOrAlt ==
    (phase = "rendered" /\ IsForEmpty(template))
        =>
        rendered =
           [kind |-> "str",
            text |-> IF context["xs"].items # <<>>
                     THEN BodyPerElement(ForBody(template), language,
                                         context["xs"].items)
                     ELSE ForAlt(template)]

RECURSIVE EscapedAsOpen(_, _, _, _)
\* The output of a template of text, autoescape tags and expression tags,
\* read from the template: modes is the stack of the autoescape tags open,
\* value the value of the expression.
EscapedAsOpen(text, modes, lang, value) ==
    IF text = <<>> THEN <<>>
    ELSE LET tag == Head(text)
             rest == Tail(text)
         IN  CASE ~IsTag(tag) ->
                    <<tag>> \o EscapedAsOpen(rest, modes, lang, value)
               [] IsExpression(tag) ->
                    (IF modes = <<>> \/ Last(modes) = "on"
                     THEN Escape(lang, value) ELSE value)
                       \o EscapedAsOpen(rest, modes, lang, value)
               [] tag = "{% endautoescape %}" ->
                    EscapedAsOpen(rest, Pop(modes), lang, value)
               [] OTHER ->
                    EscapedAsOpen(rest, Append(modes, RowOf(tag).arg), lang,
                                  value)

HasExpression(text) ==
    \E i \in 1..Len(text) : IsTag(text[i]) /\ IsExpression(text[i])

\* C13: each expression tag is escaped with the escaper of the configured
\* language exactly when the innermost autoescape tag open at that point of
\* the template is 'on' or none is open, and is emitted as it is when the
\* innermost one is 'off'; after {% endautoescape %} the enclosing mode
\* applies again.
C13_InnermostAutoescapeDecides ==
    (phase = "rendered" /\ HasExpression(template))
        =>
        rendered =
           [kind |-> "str",
            text |-> EscapedAsOpen(template, <<>>, language,
                                   context["name"])]

\* C13 witness: an expression after {% autoescape off %}{% autoescape on %}
\* {% endautoescape %}, where the enclosing 'off' applies again, was
\* rendered unescaped for a value the escaper changes.
C13_Witness ==
    /\ phase = "rendered"
    /\ template = <<"{% autoescape off %}", "{% autoescape on %}",
                    "{% endautoescape %}", "{{ context['name'] }}">>
    /\ language = "xml"
    /\ context["name"] = <<"<", "&", "*">>
    /\ rendered.text = <<"<", "&", "*">>

\* ------------------------------------------------------------------------
\* SpecSafe: safe_html, safe_xml and safe_markdown called on a value
\* ------------------------------------------------------------------------

\* Characters of a string value, at most.
MaxValueLen == 2
\* The largest absolute value of an integer value.
MaxInt == 2

\* The characters of the string values: a letter, '&', ';' and every
\* character an escaper replaces.
SafeChars ==
    {"a", "&", ";"}
        \cup {HtmlReplacements[i][1] : i \in 1..Len(HtmlReplacements)}
        \cup {XmlReplacements[i][1] : i \in 1..Len(XmlReplacements)}
        \cup {MarkdownReplacements[i][1] :
                  i \in 1..Len(MarkdownReplacements)}

\* The values passed: strings and integers.
SafeValues ==
    { [type |-> "str", chars |-> s, n |-> 0] :
         s \in UNION {[1..k -> SafeChars] : k \in 0..MaxValueLen} }
      \cup { [type |-> "int", chars |-> <<>>, n |-> k] :
                k \in (0 - MaxInt)..MaxInt }

\* str(value)
Str(value) ==
    CASE value.type = "str" -> value.chars
      [] value.n < 0 -> <<"-", ToString(0 - value.n)>>
      [] OTHER -> <<ToString(value.n)>>

\* safe_<language>(value) is about to be called; context holds the value.
InitSafe ==
    /\ RenderIdle
    /\ ResolveIdle
    /\ phase = "off"
    /\ template = <<>>
    /\ language \in Languages
    /\ DefaultFlags
    /\ function_string = CompilerStart.function_string
    /\ indentation_level = CompilerStart.indentation_level
    /\ nested_if_statements = CompilerStart.nested_if_statements
    /\ nested_for_loops = CompilerStart.nested_for_loops
    /\ nested_while_loops = CompilerStart.nested_while_loops
    /\ nested_autoescape_modes = CompilerStart.nested_autoescape_modes
    /\ last_token_was_block = CompilerStart.last_token_was_block
    /\ offset = CompilerStart.offset
    /\ raised = CompilerStart.raised
    /\ context \in {("value" :> v) : v \in SafeValues}
    /\ rendered = [kind |-> "none", text |-> <<>>]

\* The call returns.
CallSafe ==
    /\ phase = "off"
    /\ rendered' = [kind |-> "str",
                    text |-> Escape(language, Str(context["value"]))]
    /\ phase' = "rendered"
    /\ UNCHANGED <<template, language, function_string, indentation_level,
                   nested_if_statements, nested_for_loops,
                   nested_while_loops, nested_autoescape_modes,
                   last_token_was_block, offset, raised, context>>
    /\ UNCHANGED <<trim_blocks, lstrip_blocks>>
    /\ UNCHANGED <<renderVars, resolveVars>>

SpecSafe == InitSafe /\ [][CallSafe]_vars

\* ------------------------------------------------------------------------
\* Claims about the escapers
\* ------------------------------------------------------------------------

\* The characters Markdown gives a meaning to.
MarkdownSignificant ==
    {"_", "-", "!", "(", ")", "[", "]", "*", "&", "#", Backtick, "+", "<",
     ">", "|", "~"}

RECURSIVE BackslashEach(_)
\* The text with one backslash before each Markdown-significant character.
BackslashEach(text) ==
    IF text = <<>> THEN <<>>
    ELSE (IF Head(text) \in MarkdownSignificant
          THEN <<"\\", Head(text)>> ELSE <<Head(text)>>)
            \o BackslashEach(Tail(text))

\* C14: for every value v, safe_markdown(v) is str(v) with each
\* Markdown-significant character preceded by exactly one backslash and
\* every other character unchanged.
C14_MarkdownOneBackslash ==
    (phase = "rendered" /\ language = "markdown")
        => rendered.text = BackslashEach(Str(context["value"]))

\* The entity safe_html writes for a character, the character itself when
\* it writes none.
HtmlEntity(c) ==
    CASE c = "&" -> <<"&", "a", "m", "p", ";">>
      [] c = ";" -> <<"&", "s", "e", "m", "i", ";">>
      [] \E i \in 1..Len(HtmlReplacements) : HtmlReplacements[i][1] = c ->
            HtmlReplacements[CHOOSE i \in 1..Len(HtmlReplacements) :
                                HtmlReplacements[i][1] = c][2]
      [] OTHER -> <<c>>

RECURSIVE EntityEach(_)
\* Each character of the text replaced, independently, by its entity.
EntityEach(text) ==
    IF text = <<>> THEN <<>>
    ELSE HtmlEntity(Head(text)) \o EntityEach(Tail(text))

\* C15: for every value v, safe_html(v) has no '<', '>' or '"' and is
\* str(v) with each character replaced independently by its entity: no
\* character of an entity already written, its '&' or ';', is escaped a
\* second time by a later replacement.
C15_HtmlEscapesEachCharOnce ==
    (phase = "rendered" /\ language = "html")
        =>
        /\ rendered.text = EntityEach(Str(context["value"]))
        /\ \A i \in 1..Len(rendered.text) :
              rendered.text[i] \notin {"<", ">", "\""}

\* C15 witness: safe_html was called on '&;', whose '&' and ';' are next
\* to each other, and returned '&amp;&semi;'.
C15_Witness ==
    /\ phase = "rendered"
    /\ language = "html"
    /\ context["value"].chars = <<"&", ";">>
    /\ rendered.text = <<"&", "a", "m", "p", ";", "&", "s", "e", "m", "i",
                         ";">>

\* ------------------------------------------------------------------------
\* SpecCache: render_string, render_template and their _iter variants over
\* _CACHE, each call taken whole with its result consumed
\* ------------------------------------------------------------------------

\* The template strings passed, none with an extends, block or include
\* tag.  The first also spells the path of a file.
CacheTexts ==
    {<<"a">>, <<"{{ context['name'] }}">>, <<"{% if context['c'] %}">>}

\* The paths passed, each one character long.
CachePaths == {"a"}

\* The file systems the calls run over: the file is missing, or holds one
\* of the texts.
CacheFiles == {<<>>} \cup {("a" :> text) : text \in CacheTexts}

\* hash(template_string), hash(template_path): the key depends on the
\* characters of the string passed and on nothing else.
Hash(string) == string

\* The string that spells a path of one character.
PathString(path) == <<path>>

\* The languages the calls name.
CacheLanguages == {"html", "markdown"}

StringEntries == {"render_string", "render_string_iter"}

IterEntries == {"render_string_iter", "render_template_iter"}

NoResult == [kind |-> "none", text |-> <<>>]

\* Template(text, language=lang) for a text without extends, block and
\* include tags: the exception raised, or the compiled function.
NewTemplate(text, lang) ==
    LET c == CompileFrom(CompilerStart, RemoveCommentsOfTemplate(text)) IN
    [raised |-> c.raised, function_string |-> c.function_string,
     language |-> lang]

\* FileTemplate(path, language=lang) over the file system fs
NewFileTemplate(path, lang, fs) ==
    IF path \notin DOMAIN fs
    THEN [raised |-> TemplateNotFoundError(path), function_string |-> <<>>,
          language |-> lang]
    ELSE NewTemplate(fs[path], lang)

\* The template object an entry point builds from its first argument.
Construct(name, input, lang, fs) ==
    IF name \in StringEntries THEN NewTemplate(input, lang)
    ELSE NewFileTemplate(input[1], lang, fs)

Store_evenIfRaised(cache0, c, key, made) ==
    IF c
    THEN (key :> [function_string |-> made.function_string,
                  language |-> made.language]) @@ cache0
    ELSE cache0

\* if cache: _CACHE[key] = template, which a raise in the constructor
\* never reaches
Store(cache0, c, key, made) ==
    IF c /\ made.raised.type = "none"
    THEN (key :> [function_string |-> made.function_string,
                  language |-> made.language]) @@ cache0
    ELSE cache0

\* "".join of the generator stack 'layers' over the template's function
JoinIter(layers, t, ctx) ==
    LET run == RunLines(t.function_string, t.language, RunStart(ctx), 1,
                        Len(t.function_string))
        f == [iterable |-> HasYield(t.function_string), items |-> run.frags]
        d == Drain(layers, f, NewGen(layers), <<>>)
    IN  CASE run.error # "none" -> [kind |-> run.error, text |-> <<>>]
          [] d.kind = "ok" -> [kind |-> "str", text |-> Concat(d.frags)]
          [] OTHER -> [kind |-> "TypeError", text |-> <<>>]

\* What the entry point returns from the template t, joined where it is
\* a generator.  On a cache hit the _iter variants pass chunk_size to
\* render_iter by position, which render_iter (keyword-only) refuses.
Returned(name, t, ctx, k, hit) ==
    CASE name \notin IterEntries ->
            RenderTemplate(t.function_string, t.language, ctx)
      [] hit -> [kind |-> "TypeError", text |-> <<>>]
      [] name = "render_string_iter" -> JoinIter(StringIterSizes(k), t, ctx)
      [] OTHER -> JoinIter(TemplateIterSizes(k), t, ctx)

\* The exception and the result of a call that builds its template.
Outcome(name, made, ctx, k) ==
    [raised |-> made.raised,
     rendered |-> IF made.raised.type # "none" THEN NoResult
                  ELSE Returned(name, made, ctx, k, FALSE)]

InitCache ==
    /\ RenderIdle
    /\ CompileIdle
    /\ files \in CacheFiles
    /\ template_string = <<>>
    /\ extended_templates = {}
    /\ block_replacements = <<>>

\* One call of the entry point 'name' with cache=c.  state tells how the
\* call met _CACHE: "hit", "miss" or, with cache=False, "uncached".
CallEntry(name) ==
    /\ \E input \in (IF name \in StringEntries THEN CacheTexts
                     ELSE {PathString(path) : path \in CachePaths}),
          lang \in CacheLanguages, ctx \in EscapeContexts,
          k \in (IF name \in IterEntries THEN 1..MaxChunk ELSE {NoChunk}),
          c \in BOOLEAN :
          \E made \in {Construct(name, input, lang, files)} :
          \E result \in {Outcome(name, made, ctx, k)} :
          LET key == Hash(input)
              hit == c /\ key \in DOMAIN CACHE
          IN  /\ api' = name
              /\ chunk_size' = k
              /\ template_string' = input
              /\ language' = lang
              /\ context' = ctx
              /\ state' = IF hit THEN "hit"
                          ELSE IF c THEN "miss" ELSE "uncached"
              /\ raised' = IF hit THEN NoError ELSE result.raised
              /\ rendered' = IF hit
                             THEN Returned(name, CACHE[key], ctx, k, TRUE)
                             ELSE result.rendered
              /\ CACHE' = IF hit THEN CACHE ELSE Store(CACHE, c, key, made)
    /\ UNCHANGED <<fn, sizes, gen, out>>
    /\ UNCHANGED <<trim_blocks, lstrip_blocks>>
    /\ UNCHANGED <<phase, template, function_string, indentation_level,
                   nested_if_statements, nested_for_loops,
                   nested_while_loops, nested_autoescape_modes,
                   last_token_was_block, offset>>
    /\ UNCHANGED <<files, extended_templates, block_replacements>>

RenderString == CallEntry("render_string")

RenderTemplateFile == CallEntry("render_template")

RenderStringIterJoined == CallEntry("render_string_iter")

RenderTemplateIterJoined == CallEntry("render_template_iter")

NextCache ==
    \/ RenderString
    \/ RenderTemplateFile
    \/ RenderStringIterJoined
    \/ RenderTemplateIterJoined

SpecCache == InitCache /\ [][NextCache]_vars

\* ------------------------------------------------------------------------
\* Claims about the cache
\* ------------------------------------------------------------------------

\* What the last call returns when it is made with cache=False.
Uncached ==
    Outcome(api, Construct(api, template_string, language, files), context,
            chunk_size)

\* C16: a call of a cached entry point with cache=True ends as the same
\* call with cache=False does: the same exception or the same output.
C16_CachedSameAsUncached ==
    state \in {"hit", "miss"} =>
        [raised |-> raised, rendered |-> rendered] = Uncached

\* C17: a call whose template fails to compile, or whose file is missing,
\* leaves _CACHE as it was.
C17_FailedCompileLeavesCache ==
    [][raised'.type # "none" => CACHE' = CACHE]_vars

C17_Witness ==
    /\ state = "miss"
    /\ raised.type = "TemplateSyntaxError"
    /\ api = "render_string"
    /\ DOMAIN CACHE # {}

\* ------------------------------------------------------------------------
\* SpecFlags: _create_template_rendering_function called with its
\* trim_blocks and lstrip_blocks arguments, on templates with comments
\* ------------------------------------------------------------------------

\* Elements of one template, at most, in SpecFlags.
MaxFlagLen == 4

\* Literal text, hash comments and block comments; no extends, block or
\* include tag, so that the resolution leaves the template as it is.
FlagElements ==
    {"a", " ", "\n", HashComment, "{% comment %}", "{% endcomment %}"}

FlagTexts == UNION {[1..k -> FlagElements] : k \in 0..MaxFlagLen}

\* The call has resolved includes, blocks and extends (line 527).
InitFlags ==
    /\ RenderIdle
    /\ files = <<>>
    /\ template_string \in FlagTexts
    /\ extended_templates = {}
    /\ block_replacements = <<>>
    /\ phase = "resolved"
    /\ template = template_string
    /\ language = "html"
    /\ trim_blocks \in BOOLEAN
    /\ lstrip_blocks \in BOOLEAN
    /\ function_string = CompilerStart.function_string
    /\ indentation_level = CompilerStart.indentation_level
    /\ nested_if_statements = CompilerStart.nested_if_statements
    /\ nested_for_loops = CompilerStart.nested_for_loops
    /\ nested_while_loops = CompilerStart.nested_while_loops
    /\ nested_autoescape_modes = CompilerStart.nested_autoescape_modes
    /\ last_token_was_block = CompilerStart.last_token_was_block
    /\ offset = CompilerStart.offset
    /\ raised = CompilerStart.raised
    /\ context = <<>>
    /\ rendered = [kind |-> "none", text |-> <<>>]

NextFlags ==
    \/ CompileStep
    \/ RenderWith({<<>>})

SpecFlags == InitFlags /\ [][NextFlags]_vars

\* ------------------------------------------------------------------------
\* Claims about whitespace control
\* ------------------------------------------------------------------------

\* The template with its comments taken out and nothing else changed.
WithoutComments(text) == RemoveComments(text, FALSE, FALSE)

\* C18: compiled with trim_blocks=False and lstrip_blocks=False, a
\* template renders with the whitespace around its removed comments
\* untouched.
C18_FlagsOffKeepWhitespace ==
    (phase = "rendered" /\ ~trim_blocks /\ ~lstrip_blocks
        /\ rendered.kind = "str") =>
        rendered.text = WithoutComments(template_string)

\* The place of the last tag of the text, 0 when it holds none.
LastTagAt(text) ==
    LET tags == {i \in 1..Len(text) : IsTag(text[i])} IN
    IF tags = {} THEN 0 ELSE CHOOSE i \in tags : \A j \in tags : j <= i

\* C19: when the last tag of a template is an expression tag and the text
\* after it begins with a newline, that text is emitted whole, its newline
\* kept.
C19_NewlineKeptAfterExpression ==
    LET i == LastTagAt(template)
        trailing == Slice(template, i, Len(template))
    IN  (phase \in {"compiled", "rendered"} /\ i # 0
            /\ IsExpression(template[i]) /\ StartsWithNewline(trailing)) =>
            /\ function_string # <<>>
            /\ Last(function_string).code = "yield"
            /\ Last(function_string).text = trailing

\* ------------------------------------------------------------------------
\* Claims about the flat template
\* ------------------------------------------------------------------------

\* C21: the flat template handed to the token loop holds no block.super
\* placeholder and no block tag: every block.super of an applied override
\* has been replaced by the root block's default body, the empty text for a
\* block without endblock.
C21_NoBlockSuperInFlatTemplate ==
    phase = "resolved" =>
        \A i \in 1..Len(template) :
            /\ template[i] # "{{ block.super }}"
            /\ ~IsBlock(template[i])

\* ------------------------------------------------------------------------
\* SpecInterleave: templates in which if and while constructs interleave
\* ------------------------------------------------------------------------

\* Tokens of one template, at most, in SpecInterleave.
MaxInterleaveTokens == 5

InterleaveTags ==
    { "{% if context['c'] %}", "{% elif context['d'] %}", "{% endif %}",
      "{% while context['c'] %}", "{% endwhile %}" }

NextInterleave ==
    \/ ScanToken({<<>>}, InterleaveTags, MaxInterleaveTokens)
    \/ EndOfInput({<<>>})

SpecInterleave == InitCompile /\ [][NextInterleave]_vars

\* ------------------------------------------------------------------------
\* Claims about the stacks of the token loop
\* ------------------------------------------------------------------------

\* The tags among the first n elements of the text whose first word is one
\* of 'words'.
TagsAmong(text, n, words) ==
    {i \in 1..n : IsTag(text[i]) /\ RowOf(text[i]).word \in words}

\* The constructs opened by 'open' and closed by 'close' are balanced
\* within their own kind: no closing tag or clause of 'inner' comes with
\* none open, and none is left open.
BalancedKind(text, open, close, inner) ==
    LET depth(n) == Cardinality(TagsAmong(text, n, {open}))
                        - Cardinality(TagsAmong(text, n, {close}))
    IN  /\ \A n \in 1..Len(text) : depth(n) >= 0
        /\ \A i \in TagsAmong(text, Len(text), inner) : depth(i) >= 1
        /\ depth(Len(text)) = 0

\* C22: a template with an if construct and a loop, whose if, for and while
\* constructs are each balanced within their own kind, compiles, however
\* the kinds interleave.
C22_BalancedInterleavingCompiles ==
    (/\ phase # "scan"
     /\ TagsAmong(template, Len(template), {"if"}) # {}
     /\ TagsAmong(template, Len(template), {"for", "while"}) # {}
     /\ BalancedKind(template, "if", "endif", {"elif", "else"})
     /\ BalancedKind(template, "for", "endfor", {"empty"})
     /\ BalancedKind(template, "while", "endwhile", {})) =>
        phase = "compiled"

\* ------------------------------------------------------------------------
\* TemplateSyntaxError: the excerpt of the template around the token
\* ------------------------------------------------------------------------

\* lines_around, the default of _underline_token_in_template
lines_around == 4

\* text.count("\n")
CountNewlines(text) ==
    Cardinality({i \in 1..Len(text) : text[i] = "\n"})

\* The place of the first newline of the text, 0 when it holds none.
FirstNewline(text) ==
    LET at == {i \in 1..Len(text) : text[i] = "\n"} IN
    IF at = {} THEN 0 ELSE CHOOSE i \in at : \A j \in at : i <= j

\* The place of the last newline of the text, 0 when it holds none.
LastNewline(text) ==
    LET at == {i \in 1..Len(text) : text[i] = "\n"} IN
    IF at = {} THEN 0 ELSE CHOOSE i \in at : \A j \in at : j <= i

RECURSIVE Split(_)
\* text.split("\n")
Split(text) ==
    LET i == FirstNewline(text) IN
    IF i = 0 THEN <<text>>
    ELSE <<SubSeq(text, 1, i - 1)>> \o Split(SubSeq(text, i + 1, Len(text)))

RECURSIVE Join(_)
\* "\n".join(lines)
Join(lines) ==
    IF Len(lines) = 1 THEN lines[1]
    ELSE lines[1] \o <<"\n">> \o Join(Tail(lines))

\* lines[-n:]
LastLines(lines, n) ==
    IF Len(lines) <= n THEN lines
    ELSE SubSeq(lines, Len(lines) - n + 1, Len(lines))

\* lines[:n]
FirstLines(lines, n) ==
    IF Len(lines) <= n THEN lines ELSE SubSeq(lines, 1, n)

\* text.rsplit("\n", 1)[0]
BeforeLastNewline(text) ==
    IF LastNewline(text) = 0 THEN text
    ELSE SubSeq(text, 1, LastNewline(text) - 1)

\* text.rsplit("\n", 1)[-1]
AfterLastNewline(text) ==
    SubSeq(text, LastNewline(text) + 1, Len(text))

\* text.split("\n")[0]
BeforeFirstNewline(text) ==
    IF FirstNewline(text) = 0 THEN text
    ELSE SubSeq(text, 1, FirstNewline(text) - 1)

\* text.split("\n", 1)[-1]
AfterFirstNewline(text) ==
    SubSeq(text, FirstNewline(text) + 1, Len(text))

\* _skipped_lines_message, the message being one element of the excerpt
SkippedLinesMessage(nr_of_lines) ==
    "[" \o ToString(nr_of_lines) \o " line"
        \o (IF nr_of_lines > 1 THEN "s" ELSE "") \o " skipped]"

\* The text before the token as the excerpt shows it: 'if skipped_lines :='
\* takes every count other than zero.
ExcerptBefore(text) ==
    LET skipped_lines == CountNewlines(text) - lines_around IN
    IF skipped_lines # 0
    THEN <<SkippedLinesMessage(skipped_lines), "\n">>
             \o Join(LastLines(Split(text), lines_around + 1))
    ELSE text

\* The text after the token as the excerpt shows it.
ExcerptAfter(text) ==
    LET skipped_lines == CountNewlines(text) - lines_around IN
    IF skipped_lines # 0
    THEN Join(FirstLines(Split(text), lines_around + 1))
             \o <<"\n", SkippedLinesMessage(skipped_lines)>>
    ELSE text

\* _underline_token_in_template(token) in the text the token was found in.
\* The underline holds one symbol for the token, which is one element.
UnderlineTokenInTemplate(text, token) ==
    LET template_before_token ==
            ExcerptBefore(Slice(text, 0, token.start_position))
        template_after_token ==
            ExcerptAfter(Slice(text, token.end_position, Len(text)))
        same_line_before == AfterLastNewline(template_before_token)
        same_line_after == BeforeFirstNewline(template_after_token)
    IN  Join(<< BeforeLastNewline(template_before_token),
                same_line_before \o <<token.content>> \o same_line_after,
                [i \in 1..Len(same_line_before) |-> " "] \o <<"^">>
                    \o [i \in 1..Len(same_line_after) |-> " "],
                AfterFirstNewline(template_after_token) >>)

\* ------------------------------------------------------------------------
\* SpecExcerpt: a stray endif among lines of text, compiled until the
\* TemplateSyntaxError is built
\* ------------------------------------------------------------------------

\* Characters on each side of the token, at most.
MaxSideLen == 6

SideTexts == UNION {[1..k -> {"a", "\n"}] : k \in 0..MaxSideLen}

\* The call has resolved includes, blocks and extends (line 527).
InitExcerpt ==
    /\ RenderIdle
    /\ files = <<>>
    /\ template_string \in
          {before \o <<"{% endif %}">> \o after :
               before \in SideTexts, after \in SideTexts}
    /\ extended_templates = {}
    /\ block_replacements = <<>>
    /\ phase = "resolved"
    /\ template = template_string
    /\ language = "html"
    /\ DefaultFlags
    /\ function_string = CompilerStart.function_string
    /\ indentation_level = CompilerStart.indentation_level
    /\ nested_if_statements = CompilerStart.nested_if_statements
    /\ nested_for_loops = CompilerStart.nested_for_loops
    /\ nested_while_loops = CompilerStart.nested_while_loops
    /\ nested_autoescape_modes = CompilerStart.nested_autoescape_modes
    /\ last_token_was_block = CompilerStart.last_token_was_block
    /\ offset = CompilerStart.offset
    /\ raised = CompilerStart.raised
    /\ context = <<>>
    /\ rendered = [kind |-> "none", text |-> <<>>]

\* TemplateSyntaxError.__init__: the message of the exception raised, the
\* excerpt and, after an empty line, the reason.  rendered holds it.
SyntaxErrorInit ==
    /\ phase = "failed"
    /\ raised.type = "TemplateSyntaxError"
    /\ rendered' =
          [kind |-> raised.type,
           text |-> UnderlineTokenInTemplate(template, raised.token)
                        \o <<"\n", "\n", raised.reason>>]
    /\ phase' = "reported"
    /\ UNCHANGED <<template, language, function_string, indentation_level,
                   nested_if_statements, nested_for_loops,
                   nested_while_loops, nested_autoescape_modes,
                   last_token_was_block, offset, raised, context>>
    /\ UNCHANGED <<trim_blocks, lstrip_blocks>>
    /\ UNCHANGED <<renderVars, resolveVars>>

NextExcerpt ==
    \/ CompileStep
    \/ SyntaxErrorInit

SpecExcerpt == InitExcerpt /\ [][NextExcerpt]_vars

\* ------------------------------------------------------------------------
\* Claims about the excerpt
\* ------------------------------------------------------------------------

\* A skipped-lines message, whatever number it prints.
IsSkippedMessage(e) ==
    \E k \in (0 - lines_around - MaxSideLen)..MaxSideLen :
        e = SkippedLinesMessage(k)

\* The excerpt of the message: all but the empty line and the reason.
Excerpt == SubSeq(rendered.text, 1, Len(rendered.text) - 3)

\* C24: the excerpt begins with a skipped-lines message exactly when more
\* than lines_around lines lie before the token's line, and ends with one
\* exactly when more than lines_around lines lie after it; the number
\* printed is the number of lines left out, a positive one.
C24_MarkerOnlyWhenLinesSkipped ==
    phase = "reported" =>
        LET before == CountNewlines(
                          Slice(template, 0, raised.token.start_position))
            after == CountNewlines(
                         Slice(template, raised.token.end_position,
                               Len(template)))
        IN  /\ IsSkippedMessage(Excerpt[1]) <=> before > lines_around
            /\ IsSkippedMessage(Excerpt[1]) =>
                   Excerpt[1] = SkippedLinesMessage(before - lines_around)
            /\ IsSkippedMessage(Last(Excerpt)) <=> after > lines_around
            /\ IsSkippedMessage(Last(Excerpt)) =>
                   Last(Excerpt) = SkippedLinesMessage(after - lines_around)

\* ------------------------------------------------------------------------
\* SpecComments: templates of comments and of pieces of comments, stripped
\* and compiled
\* ------------------------------------------------------------------------

\* Elements of one template, at most, in SpecComments.
MaxCommentLen == 5

CommentElements ==
    {"a", HashOpen, HashRest, HashComment, "{% comment %}",
     "{% endcomment %}"}

CommentTexts == UNION {[1..k -> CommentElements] : k \in 0..MaxCommentLen}

\* The call has resolved includes, blocks and extends (line 527).
InitComments ==
    /\ RenderIdle
    /\ files = <<>>
    /\ template_string \in CommentTexts
    /\ extended_templates = {}
    /\ block_replacements = <<>>
    /\ phase = "resolved"
    /\ template = template_string
    /\ language = "html"
    /\ DefaultFlags
    /\ function_string = CompilerStart.function_string
    /\ indentation_level = CompilerStart.indentation_level
    /\ nested_if_statements = CompilerStart.nested_if_statements
    /\ nested_for_loops = CompilerStart.nested_for_loops
    /\ nested_while_loops = CompilerStart.nested_while_loops
    /\ nested_autoescape_modes = CompilerStart.nested_autoescape_modes
    /\ last_token_was_block = CompilerStart.last_token_was_block
    /\ offset = CompilerStart.offset
    /\ raised = CompilerStart.raised
    /\ context = <<>>
    /\ rendered = [kind |-> "none", text |-> <<>>]

SpecComments == InitComments /\ [][CompileStep]_vars

\* ------------------------------------------------------------------------
\* Claims about the comment stripper
\* ------------------------------------------------------------------------

\* The text holds a block comment: a comment tag with an endcomment tag
\* after it.
HasBlockComment(text) ==
    \E i \in 1..Len(text) :
        IsComment(text[i]) /\ First(text, i, EndcommentPattern) # 0

\* C23: the text the comment stripper returns holds no hash comment and no
\* block comment.
C23_NoCommentLeft ==
    phase \in {"compiled", "failed"} =>
        /\ FindHashComment(template) = <<0, 0>>
        /\ ~HasBlockComment(template)

\* ------------------------------------------------------------------------
\* SpecInclude: the loop of _resolve_includes, one pass at a time
\* ------------------------------------------------------------------------

\* The longest working text the memory holds, in elements, in SpecInclude.
MaxIncludeLen == 6

FootFileTexts ==
    { <<"f">>,
      <<"{% include 'foot.html' %}">>,
      <<"f", "{% include 'foot.html' %}">>,
      <<"{% include 'side.html' %}">>,
      <<"f", "{% include 'side.html' %}", "{% include 'side.html' %}">> }

SideFileTexts ==
    { <<"s">>,
      <<>>,
      <<"{% include 'foot.html' %}">>,
      <<"s", "{% include 'foot.html' %}">>,
      <<"{% include 'missing.html' %}">> }

IncludeFiles ==
    {("foot.html" :> foot) @@ ("side.html" :> side) :
         foot \in FootFileTexts, side \in SideFileTexts}
        \cup {("foot.html" :> foot) : foot \in FootFileTexts}

IncludeStrings ==
    { <<"a">>,
      <<"a", "{% include 'foot.html' %}">>,
      <<"{% include 'side.html' %}", "a">>,
      <<"{% include 'foot.html' %}", "{% include 'side.html' %}">>,
      <<"a", "{% include 'missing.html' %}">> }

\* _resolve_includes(template) is about to begin.
InitInclude ==
    /\ RenderIdle
    /\ files \in IncludeFiles
    /\ template_string \in IncludeStrings
    /\ extended_templates = {}
    /\ block_replacements = <<>>
    /\ phase = "include"
    /\ template = template_string
    /\ language = "html"
    /\ DefaultFlags
    /\ function_string = CompilerStart.function_string
    /\ indentation_level = CompilerStart.indentation_level
    /\ nested_if_statements = CompilerStart.nested_if_statements
    /\ nested_for_loops = CompilerStart.nested_for_loops
    /\ nested_while_loops = CompilerStart.nested_while_loops
    /\ nested_autoescape_modes = CompilerStart.nested_autoescape_modes
    /\ last_token_was_block = CompilerStart.last_token_was_block
    /\ offset = CompilerStart.offset
    /\ raised = CompilerStart.raised
    /\ context = <<>>
    /\ rendered = [kind |-> "none", text |-> <<>>]

Splice_keepsTag(text, i, content) ==
    Slice(text, 0, i) \o content \o Slice(text, i, Len(text))

\* template[: include_match.start()] + template_file.read()
\*     + template[include_match.end() :], the match being the element i
Splice(text, i, content) ==
    Slice(text, 0, i - 1) \o content \o Slice(text, i, Len(text))

\* One pass of the loop of _resolve_includes: no include tag is left and
\* the function returns, or the file is missing and it raises, or the first
\* include tag is replaced by the text of its file.
IncludeStep ==
    /\ phase = "include"
    /\ \E i \in {First(template, 0, IncludePattern)} :
          IF i = 0
          THEN /\ phase' = "included"
               /\ UNCHANGED <<template, raised>>
          ELSE IF RowOf(template[i]).arg \notin DOMAIN files
          THEN /\ phase' = "failed"
               /\ raised' = TemplateNotFoundError(RowOf(template[i]).arg)
               /\ UNCHANGED template
          ELSE /\ template' =
                     Splice(template, i, files[RowOf(template[i]).arg])
               /\ phase' = IF Len(template') > MaxIncludeLen
                           THEN "exhausted" ELSE "include"
               /\ UNCHANGED raised
    /\ UNCHANGED <<language, function_string, indentation_level,
                   nested_if_statements, nested_for_loops,
                   nested_while_loops, nested_autoescape_modes,
                   last_token_was_block, offset, context, rendered>>
    /\ UNCHANGED <<trim_blocks, lstrip_blocks>>
    /\ UNCHANGED <<renderVars, resolveVars>>

SpecInclude == InitInclude /\ [][IncludeStep]_vars

\* The loop is a loop of the running program: it takes its next pass.
SpecIncludeFair == SpecInclude /\ WF_vars(IncludeStep)

\* ------------------------------------------------------------------------
\* Claims about include resolution
\* ------------------------------------------------------------------------

\* The paths the include tags of a text name.
Included(text) ==
    {RowOf(text[i]).arg : i \in {j \in 1..Len(text) : IsInclude(text[j])}}

\* The paths named by the given paths' files, the missing ones naming none.
NamedBy(paths) ==
    UNION {Included(files[p]) : p \in paths \cap DOMAIN files}

\* The paths reached from the given ones in one step or more; three paths
\* exist at most.
ReachedFrom(paths) ==
    LET one == NamedBy(paths)
        two == one \cup NamedBy(one)
    IN  two \cup NamedBy(two)

\* The paths the template includes, directly or through other files.
Reachable ==
    Included(template_string) \cup ReachedFrom(Included(template_string))

AllTargetsExist == Reachable \subseteq DOMAIN files

\* A file the template includes includes itself, directly or through
\* others.
IncludesItself == \E p \in Reachable : p \in ReachedFrom({p})

NoIncludeLeft == \A i \in 1..Len(template) : ~IsInclude(template[i])

MaxSharedTokens == 2

Consumers == {1, 2}

SharedTexts == { <<>>, <<"a">> }

ScanShared == ScanToken(SharedTexts, OutputTags, MaxSharedTokens)

EndShared == EndOfInput(SharedTexts)

\* The run of self._template_function(ctx) consumed to its end.  A function
\* without yield returns None, which the consumer cannot iterate.
ConsumedAlone(lines, lang, ctx) ==
    IF ~HasYield(lines) THEN [frags |-> <<>>, end |-> "TypeError"]
    ELSE LET r == RunLines(lines, lang, RunStart(ctx), 1, Len(lines))
         IN  [frags |-> r.frags,
              end |-> IF r.error = "none" THEN "exhausted" ELSE r.error]

GeneratorOf_oneForAll(i) == 1

\* The generator consumer i holds: each call of the template function
\* makes a generator of its own.
GeneratorOf(i) == i

\* The frame of a generator that has not begun: the first line is next,
\* the parameter context is its only name.
NewFrame(ctx) ==
    [pc |-> 1, ctx |-> ctx, locals |-> <<>>]

\* The first yield of the lines from pc on; past the last line when there
\* is none.  The lines of these templates are all at the top level.
NextYield(lines, pc) ==
    LET ys == {j \in pc..Len(lines) :
                  lines[j].code \in {"yield", "yield_safe", "yield_str"}}
    IN  IF ys = {} THEN Len(lines) + 1
        ELSE CHOOSE j \in ys : \A k \in ys : j <= k

\* next() on a generator of the template function: the lines from where
\* the frame stands up to the next yield, or to the end of the body.
Resume(lines, lang, frame) ==
    LET y == NextYield(lines, frame.pc)
        hi == IF y > Len(lines) THEN Len(lines) ELSE y
        r == RunLines(lines, lang,
                      [ctx |-> frame.ctx, locals |-> frame.locals,
                       frags |-> <<>>, error |-> "none"],
                      frame.pc, hi)
    IN  [frame |-> [pc |-> hi + 1, ctx |-> r.ctx, locals |-> r.locals],
         frags |-> r.frags,
         end |-> IF r.error # "none" THEN r.error
                 ELSE IF y > Len(lines) THEN "exhausted"
                 ELSE "open"]

\* Both consumers call template.render_iter(context): the template
\* function is called once per consumer.
RenderIterBoth ==
    /\ phase = "compiled"
    /\ \E ctxs \in [Consumers -> Contexts] :
          /\ context' = ctxs
          /\ fn' = [i \in Consumers |->
                      ConsumedAlone(function_string, language, ctxs[i])]
          /\ gen' = [i \in Consumers |-> NewFrame(ctxs[i])]
    /\ out' = [i \in Consumers |-> <<>>]
    /\ state' = [i \in Consumers |->
                   IF HasYield(function_string) THEN "open"
                   ELSE "TypeError"]
    /\ phase' = "rendering"
    /\ UNCHANGED <<api, chunk_size, sizes, CACHE>>
    /\ UNCHANGED <<template, language, function_string, indentation_level,
                   nested_if_statements, nested_for_loops,
                   nested_while_loops, nested_autoescape_modes,
                   last_token_was_block, offset, raised, rendered>>
    /\ UNCHANGED <<trim_blocks, lstrip_blocks>>
    /\ UNCHANGED resolveVars

\* Consumer i asks its generator for the next fragment.
NextFragmentOf(i) ==
    /\ phase = "rendering"
    /\ state[i] = "open"
    /\ LET g == GeneratorOf(i)
           r == Resume(function_string, language, gen[g])
       IN  /\ gen' = [gen EXCEPT ![g] = r.frame]
           /\ out' = [out EXCEPT ![i] = @ \o r.frags]
           /\ state' = [state EXCEPT ![i] = r.end]
    /\ UNCHANGED <<api, chunk_size, fn, sizes, CACHE>>
    /\ UNCHANGED <<compileVars, resolveVars>>

FirstConsumerNext == NextFragmentOf(1)

SecondConsumerNext == NextFragmentOf(2)

NextShared ==
    \/ ScanShared
    \/ EndShared
    \/ RenderIterBoth
    \/ FirstConsumerNext
    \/ SecondConsumerNext

SpecShared == InitCompile /\ [][NextShared]_vars

\* fragments is what the run has yielded so far.
IsPrefixOf(fragments, all) ==
    /\ Len(fragments) <= Len(all)
    /\ fragments = SubSeq(all, 1, Len(fragments))

\* Claim C26: under every interleaving of the fragment-by-fragment steps of
\* two render_iter consumers of one Template, each with its own context,
\* each consumer receives the fragments it would receive alone (a part of
\* them while it is still iterating, all of them and the same end once it
\* is done), and no step changes the Template's compiled function.
C26_ConsumersDoNotInterfere ==
    /\ [](phase = "rendering" =>
            \A i \in Consumers :
               /\ IsPrefixOf(out[i], fn[i].frags)
               /\ state[i] # "open" =>
                     /\ out[i] = fn[i].frags
                     /\ state[i] = fn[i].end)
    /\ [][phase = "rendering" => function_string' = function_string]_vars

\* Both generators are suspended in the middle of the body at once: each
\* consumer has received a fragment and has more to come, and the two,
\* whose contexts differ, have received different fragments.
C26_Witness ==
    /\ phase = "rendering"
    /\ state[1] = "open"
    /\ state[2] = "open"
    /\ context[1] # context[2]
    /\ out[1] # <<>>
    /\ out[2] # <<>>
    /\ out[1] # out[2]
    /\ Len(fn[1].frags) > Len(out[1])

\* ------------------------------------------------------------------------
\* SpecIndent: the indentation of the generated code
\* ------------------------------------------------------------------------

\* Tags of a template of SpecIndent, at most.
MaxIndentTokens == 4

\* The statements that open, continue and close a block, and those that
\* open none.
IndentTags ==
    { "{% if context['c'] %}", "{% elif context['d'] %}", "{% else %}",
      "{% endif %}", "{% for x in context['xs'] %}", "{% empty %}",
      "{% endfor %}", "{% while context['c'] %}", "{% endwhile %}",
      "{% exec context['n'] = 1 %}", "{% autoescape off %}",
      "{% endautoescape %}" }

ScanIndent == ScanToken(StructureTexts, IndentTags, MaxIndentTokens)

EndIndent == EndOfInput(StructureTexts)

NextIndent == ScanIndent \/ EndIndent

SpecIndent == InitCompile /\ [][NextIndent]_vars

\* len(nested_if_statements) + len(nested_for_loops)
\*     + len(nested_while_loops)
OpenBlocks ==
    Len(nested_if_statements) + Len(nested_for_loops)
        + Len(nested_while_loops)

\* The text after the last token, when the template ends with text.
EndsWithText(text) ==
    text # <<>> /\ ~IsTag(Last(text))

\* Claim C27: after every pass of the token loop the indentation level of
\* the generated code is 1 plus the number of open if, for and while blocks
\* (exec and autoescape tags leave it alone), so it is never below 1; it is
\* 1 when the compilation succeeds, and the text after the last token is
\* yielded at level 1.
C27_IndentationFollowsOpenBlocks ==
    /\ indentation_level = 1 + OpenBlocks
    /\ indentation_level >= 1
    /\ phase = "compiled" =>
          /\ indentation_level = 1
          /\ EndsWithText(template) =>
                /\ Last(function_string).code = "yield"
                /\ Last(function_string).level = 1

\* An autoescape and an exec tag lie inside an open if and an open loop:
\* two blocks are open and the code stands at level 3.
C27_Witness ==
    /\ phase = "scan"
    /\ nested_if_statements # <<>>
    /\ Len(nested_for_loops) + Len(nested_while_loops) = 1
    /\ nested_autoescape_modes # <<>>
    /\ Last(template) = "{% exec context['n'] = 1 %}"
    /\ indentation_level = 3

\* A template with a closed block and text after its last tag has compiled.
C27_WitnessCompiled ==
    /\ phase = "compiled"
    /\ EndsWithText(template)
    /\ \E i \in 1..Len(template) : template[i] = "{% endif %}"
    /\ \E i \in 1..Len(template) : template[i] = "{% else %}"

\* ------------------------------------------------------------------------
\* SpecSilent: templates that may yield nothing
\* ------------------------------------------------------------------------

\* Tags of a template of SpecSilent, at most.
MaxSilentTokens == 3

SilentTags ==
    { "{% exec context['n'] = 1 %}", "{% if context['c'] %}", "{% endif %}",
      "{{ context['name'] }}" }

\* Contexts that hold every key the tags read.
SilentContexts ==
    { ("c" :> b) @@ ("name" :> <<"W">>) : b \in BOOLEAN }

ScanSilent == ScanToken(StructureTexts, SilentTags, MaxSilentTokens)

EndSilent == EndOfInput(StructureTexts)

RenderSilent == RenderWith(SilentContexts)

NextSilent == ScanSilent \/ EndSilent \/ RenderSilent

SpecSilent == InitCompile /\ [][NextSilent]_vars

\* The template holds neither text nor an expression tag.
NoOutputTemplate(text) ==
    \A i \in 1..Len(text) :
       IsTag(text[i]) /\ RowOf(text[i]).open = "{%"

\* Claim C28: for every template that compiles, render_iter returns an
\* iterable of fragments and render returns a string; a template without
\* text and without expression tags renders to the empty string.
C28_CompiledTemplateRendersString ==
    phase = "rendered" =>
       /\ HasYield(function_string)
       /\ rendered.kind = "str"
       /\ NoOutputTemplate(template) => rendered.text = <<>>

====
